---------------------------- MODULE Spec2Model ----------------------------
(***************************************************************************)
(* A model of the Vani-ai audio analysis scripts:                          *)
(*   scripts/analyze_audio.py         AudioAnalyzer (pitch trajectory,     *)
(*                                    emotion analysis and the ElevenLabs  *)
(*                                    parameter mapper)                    *)
(*   scripts/test_audio_comparison.py per-dialogue settings (version A/B)  *)
(*                                                                         *)
(* Numbers.  The program computes on floats; the model computes on         *)
(* integers in fixed point.  Every score, ratio and voice setting is       *)
(* carried in units of 1/10000 (0.35 is 3500), and pitches are whole Hz.   *)
(* Input grids of the mapper and of the dialogue settings are chosen so    *)
(* that the products of the code (x * 0.5, x * 0.3, ...) are exact in that *)
(* unit; the emotion scores, which divide by a mean and take a square      *)
(* root, are truncated to it.  Python dictionaries are functions on their  *)
(* key set, and d.get(k, default) is Get(d, k, default).                   *)
(***************************************************************************)
EXTENDS Integers, Sequences, FiniteSets, TLC

VARIABLES
    \* ---- AudioAnalyzer fields read and written by the mapper ----
    audio_properties,       \* self.audio_properties
    voice_characteristics,  \* self.voice_characteristics
    timing_analysis,        \* self.timing_analysis
    audio_quality,          \* self.audio_quality
    recommended_settings,   \* self.recommended_settings
    map_pc,                 \* "ready" before _map_to_elevenlabs_settings, "mapped" after
    map_raised              \* whether the mapper's try block raised

mapVars == << audio_properties, voice_characteristics, timing_analysis,
              audio_quality, recommended_settings, map_pc, map_raised >>

-----------------------------------------------------------------------------
(* Python helpers                                                          *)

\* d.get(k, default)
Get(d, k, default) == IF k \in DOMAIN d THEN d[k] ELSE default

\* min(a, b) and max(a, b) of two arguments: the first one wins a tie
PyMin(a, b) == IF b < a THEN b ELSE a
PyMax(a, b) == IF b > a THEN b ELSE a

\* round(x, 2) of a value in units of 1/10000: the nearest multiple of 100.
\* An exact decimal tie (x.xx5) is decided in Python by the binary value of
\* the float, which lies a rounding error above or below the tie, so both
\* neighbours are possible outcomes.
Round2(x) ==
    LET lo == (x \div 100) * 100
        r  == x % 100
    IN  IF r < 50 THEN {lo}
        ELSE IF r > 50 THEN {lo + 100}
        ELSE {lo, lo + 100}

\* {"error": str(e)}: the record a stage leaves behind when it fails
ErrorRecord == [error |-> "error"]

-----------------------------------------------------------------------------
(* AudioAnalyzer._map_to_elevenlabs_settings                               *)

\* the clamp limits and defaults of the mapper, in units of 1/10000
STABILITY_MIN == 1000
STABILITY_MAX == 9000
SIMILARITY_MIN == 3000
SIMILARITY_MAX == 9000
STYLE_MIN == 1000
STYLE_MAX == 9000
DEFAULT_PITCH_VARIATION == 3000
DEFAULT_EXPRESSIVENESS == 5000
DEFAULT_CLARITY == 7000
DEFAULT_PAUSE == 3000
SPEAKER_BOOST_CLARITY == 6000
DEFAULT_SAMPLE_RATE == 44100

\* stability = max(0.1, min(0.9, 0.6 - (pitch_var * 0.5)))
MapStability_NoFloor(pitch_var) ==
    PyMin(STABILITY_MAX, 6000 - ((pitch_var * 5) \div 10))
MapStability(pitch_var) ==
    PyMax(STABILITY_MIN, PyMin(STABILITY_MAX, 6000 - ((pitch_var * 5) \div 10)))

\* similarity_boost = max(0.3, min(0.9, 0.5 + (clarity * 0.3) - (expressiveness * 0.2)))
MapSimilarityBoost_Swapped(clarity, expressiveness) ==
    PyMax(SIMILARITY_MIN, PyMin(SIMILARITY_MAX,
          5000 + ((expressiveness * 3) \div 10) - ((clarity * 2) \div 10)))
MapSimilarityBoost(clarity, expressiveness) ==
    PyMax(SIMILARITY_MIN, PyMin(SIMILARITY_MAX,
          5000 + ((clarity * 3) \div 10) - ((expressiveness * 2) \div 10)))

\* style = max(0.1, min(0.9, 0.3 + (expressiveness * 0.4)))
MapStyle(expressiveness) ==
    PyMax(STYLE_MIN, PyMin(STYLE_MAX, 3000 + ((expressiveness * 4) \div 10)))

\* output_format from the reference sample rate
MapOutputFormat(sample_rate) ==
    IF sample_rate >= 44100 THEN "mp3_44100_128"
    ELSE IF sample_rate >= 22050 THEN "mp3_22050_128"
    ELSE "mp3_44100_128"

\* the except branch storing a record without the pause
MapperDefaultSettings_NoPause ==
    [ stability |-> 3500,
      similarity_boost |-> 7500,
      style |-> 5500,
      use_speaker_boost |-> TRUE,
      output_format |-> "mp3_44100_128",
      model_id |-> "eleven_multilingual_v2" ]

\* the record of the except branch
MapperDefaultSettings ==
    [ stability |-> 3500,
      similarity_boost |-> 7500,
      style |-> 5500,
      use_speaker_boost |-> TRUE,
      output_format |-> "mp3_44100_128",
      model_id |-> "eleven_multilingual_v2",
      pause_duration_seconds |-> 3000 ]

\* The whole method.  `raises` is the environment: whether a statement of
\* the try block (the arithmetic, or one of the prints that follow the
\* assignment) raises; the except branch then stores the default record.
MapToElevenlabsSettings ==
    /\ map_pc = "ready"
    /\ \E raises \in BOOLEAN :
        LET pitch_var == Get(voice_characteristics, "pitch_variation_coefficient",
                             DEFAULT_PITCH_VARIATION)
            expressiveness == Get(voice_characteristics, "expressiveness_score",
                                  DEFAULT_EXPRESSIVENESS)
            clarity == Get(audio_quality, "clarity_score", DEFAULT_CLARITY)
            stability == MapStability(pitch_var)
            similarity_boost == MapSimilarityBoost(clarity, expressiveness)
            style == MapStyle(expressiveness)
            use_speaker_boost == clarity > SPEAKER_BOOST_CLARITY
            sample_rate == Get(audio_properties, "sample_rate", DEFAULT_SAMPLE_RATE)
            pause == Get(timing_analysis, "average_pause_duration_seconds",
                         DEFAULT_PAUSE)
        IN  /\ map_raised' = raises
            /\ IF raises
               THEN recommended_settings' = MapperDefaultSettings
               ELSE \E st \in Round2(stability), sb \in Round2(similarity_boost),
                       sy \in Round2(style), pd \in Round2(pause) :
                        recommended_settings' =
                            [ stability |-> st,
                              similarity_boost |-> sb,
                              style |-> sy,
                              use_speaker_boost |-> use_speaker_boost,
                              output_format |-> MapOutputFormat(sample_rate),
                              model_id |-> "eleven_multilingual_v2",
                              pause_duration_seconds |-> pd ]
    /\ map_pc' = "mapped"
    /\ UNCHANGED << audio_properties, voice_characteristics, timing_analysis,
                    audio_quality >>

\* Feature values handed to the mapper, in units of 1/10000: negative,
\* zero, ordinary, on a rounding tie (2500 * 0.5 = 0.125), above 1 and huge.
PitchVariationInputs == {-20000, 0, 1230, 2500, 3000, 10000, 12000, 5000000}
ExpressivenessInputs == {-30000, 0, 2460, 5000, 10000, 20000, 5000000}
ClarityInputs == {-30000, 0, 5000, 6000, 6010, 10000, 5000000}
PauseInputs == {1234, 3000, 12350}
SampleRateInputs == {16000, 22050, 44100}

\* The analyzer just before step 8: every stage has left either its record
\* or an error record.
InitMap ==
    /\ \/ voice_characteristics = ErrorRecord
       \/ \E p \in PitchVariationInputs, e \in ExpressivenessInputs :
            voice_characteristics =
                [ pitch_variation_coefficient |-> p, expressiveness_score |-> e ]
    /\ \/ audio_quality = ErrorRecord
       \/ \E c \in ClarityInputs : audio_quality = [ clarity_score |-> c ]
    /\ \/ timing_analysis = ErrorRecord
       \/ \E t \in PauseInputs :
            timing_analysis = [ average_pause_duration_seconds |-> t ]
    /\ \/ audio_properties = ErrorRecord
       \/ \E r \in SampleRateInputs : audio_properties = [ sample_rate |-> r ]
    /\ recommended_settings = << >>
    /\ map_pc = "ready"
    /\ map_raised = FALSE


\* the mapper's fields in a specification that does not run the mapper
MapOff ==
    /\ audio_properties = << >>
    /\ voice_characteristics = << >>
    /\ timing_analysis = << >>
    /\ audio_quality = << >>
    /\ recommended_settings = << >>
    /\ map_pc = "off"
    /\ map_raised = FALSE

-----------------------------------------------------------------------------
(* AudioAnalyzer._determine_pitch_trajectory                               *)

VARIABLES
    pitch_contour,        \* the contour handed to _determine_pitch_trajectory
    trajectory,           \* its label
    reversed_trajectory,  \* the label of the same contour reversed in time
    traj_pc               \* "first", "second", "done" ("off" when unused)

trajVars == << pitch_contour, trajectory, reversed_trajectory, traj_pc >>

\* the longest contour drawn
MaxContourLen == 6

\* pitch values (Hz) of the contours drawn: 0 is an unvoiced frame; 90, 100
\* and 110 put a change on, inside and outside the 10% band
TrajectoryPitches == {0, 90, 100, 110}

\* the sum of a sequence of numbers (np.mean is SumSeq / Len)
RECURSIVE SumSeq(_)
SumSeq(s) == IF s = << >> THEN 0 ELSE Head(s) + SumSeq(Tail(s))

\* contour[::-1]
Reverse(s) == [ i \in 1..Len(s) |-> s[Len(s) + 1 - i] ]

\* num / den > p / q and num / den < p / q, for den # 0 and q > 0
RatioGt(num, den, p, q) == IF den > 0 THEN num * q > p * den ELSE num * q < p * den
RatioLt(num, den, p, q) == IF den > 0 THEN num * q < p * den ELSE num * q > p * den

\* The method.  start_third and end_third are means over `third` samples;
\* they are kept as the sums start_sum and end_sum, so that
\*   start_third == 0                            is  start_sum = 0, and
\*   (end_third - start_third) / start_third     is  (end_sum - start_sum) / start_sum.
DeterminePitchTrajectory_OverEnd(contour) ==
    IF Len(contour) < 3 THEN "stable"
    ELSE LET third == Len(contour) \div 3
             start_sum == IF third > 0 THEN SumSeq(SubSeq(contour, 1, third)) ELSE 0
             end_sum == IF third > 0
                        THEN SumSeq(SubSeq(contour, Len(contour) - third + 1, Len(contour)))
                        ELSE 0
         IN  IF start_sum = 0 \/ end_sum = 0 THEN "stable"
             ELSE IF RatioGt(end_sum - start_sum, end_sum, 1, 10) THEN "rising"
             ELSE IF RatioLt(end_sum - start_sum, end_sum, -1, 10) THEN "falling"
             ELSE "stable"
DeterminePitchTrajectory_Inclusive(contour) ==
    IF Len(contour) < 3 THEN "stable"
    ELSE LET third == Len(contour) \div 3
             start_sum == IF third > 0 THEN SumSeq(SubSeq(contour, 1, third)) ELSE 0
             end_sum == IF third > 0
                        THEN SumSeq(SubSeq(contour, Len(contour) - third + 1, Len(contour)))
                        ELSE 0
         IN  IF start_sum = 0 \/ end_sum = 0 THEN "stable"
             ELSE IF ~RatioLt(end_sum - start_sum, start_sum, 1, 10) THEN "rising"
             ELSE IF ~RatioGt(end_sum - start_sum, start_sum, -1, 10) THEN "falling"
             ELSE "stable"
DeterminePitchTrajectory(contour) ==
    IF Len(contour) < 3 THEN "stable"
    ELSE LET third == Len(contour) \div 3
             start_sum == IF third > 0 THEN SumSeq(SubSeq(contour, 1, third)) ELSE 0
             end_sum == IF third > 0
                        THEN SumSeq(SubSeq(contour, Len(contour) - third + 1, Len(contour)))
                        ELSE 0
         IN  IF start_sum = 0 \/ end_sum = 0 THEN "stable"
             ELSE IF RatioGt(end_sum - start_sum, start_sum, 1, 10) THEN "rising"
             ELSE IF RatioLt(end_sum - start_sum, start_sum, -1, 10) THEN "falling"
             ELSE "stable"

\* the contours drawn: every sequence of TrajectoryPitches up to MaxContourLen
TrajectoryContours == UNION { [1..n -> TrajectoryPitches] : n \in 0..MaxContourLen }

\* a call on the contour
DetermineFirst ==
    /\ traj_pc = "first"
    /\ trajectory' = DeterminePitchTrajectory(pitch_contour)
    /\ traj_pc' = "second"
    /\ UNCHANGED << pitch_contour, reversed_trajectory >>

\* a call on the same contour reversed in time
DetermineReversed ==
    /\ traj_pc = "second"
    /\ reversed_trajectory' = DeterminePitchTrajectory(Reverse(pitch_contour))
    /\ traj_pc' = "done"
    /\ UNCHANGED << pitch_contour, trajectory >>

InitTraj ==
    /\ pitch_contour \in TrajectoryContours
    /\ trajectory = "none"
    /\ reversed_trajectory = "none"
    /\ traj_pc = "first"

TrajOff ==
    /\ pitch_contour = << >>
    /\ trajectory = "none"
    /\ reversed_trajectory = "none"
    /\ traj_pc = "off"

-----------------------------------------------------------------------------
(* test_audio_comparison.py: per-dialogue voice settings                   *)

VARIABLES
    DEFAULT_SETTINGS,   \* the module-level dictionary
    analysis_config,    \* the analysis JSON handed to version B
    dialogue_index,     \* arguments of the call in progress (-1 when idle)
    total_dialogues,
    text,
    version,            \* "A" or "B" ("none" when idle)
    settings,           \* the dictionary the call returned (<< >> when idle)
    assigned,           \* every [rule, field, value] the call stored into base_settings
    dlg_pc              \* "idle", "returned" ("off" when unused)

dlgVars == << DEFAULT_SETTINGS, analysis_config, dialogue_index, total_dialogues,
              text, version, settings, assigned, dlg_pc >>

\* the longest script for which settings are requested
MaxDialogues == 2

\* limits, deltas and fallbacks of version B, in units of 1/10000 (pitches in Hz)
SETTING_MIN == 1000
SETTING_MAX == 9000
BOOST_MIN == 3000
BOOST_MAX == 9000
FALLBACK_STYLE == 5500
FALLBACK_STABILITY == 3500
FALLBACK_BOOST == 7500
FALLBACK_INTENSITY == 5000
HIGH_START_PITCH == 180
LOW_END_PITCH == 170
PITCH_DIFF_HZ == 10

\* DEFAULT_SETTINGS as the module defines it
DefaultSettingsDict ==
    [ stability |-> 3500,
      similarity_boost |-> 7500,
      style |-> 5500,
      use_speaker_boost |-> TRUE,
      pause_duration_seconds |-> 3000 ]

\* d[k] = v on a dictionary: the key is added when it is missing
Put(d, k, v) == [ x \in (DOMAIN d) \cup {k} |-> IF x = k THEN v ELSE d[x] ]

\* base_settings[field] = value, remembered in the log of assignments with
\* the rule that made it.  st is [settings, log]: base_settings and the
\* assignments made so far.
Assign(st, rule, field, value) ==
    [ settings |-> Put(st.settings, field, value),
      log |-> st.log \cup { [ rule |-> rule, field |-> field, value |-> value ] } ]

Style(st) == Get(st.settings, "style", FALLBACK_STYLE)
Stability(st) == Get(st.settings, "stability", FALLBACK_STABILITY)

\* text.lower() on the marker tokens drawn
Lower(token) ==
    IF token = "(LAUGHS)" THEN "(laughs)"
    ELSE IF token = "(Excited)" THEN "(excited)"
    ELSE token

\* the markers matched by \(laughs?\)|\(giggles?\)|\(chuckles?\) and by
\* \(excited?\)|\(surprised?\)
LaughterMarkers ==
    { "(laugh)", "(laughs)", "(giggle)", "(giggles)", "(chuckle)", "(chuckles)" }
ExcitementMarkers == { "(excite)", "(excited)", "(surprise)", "(surprised)" }

\* detect_emotion_in_text on a text given as its sequence of tokens
DetectEmotionInText(t) ==
    IF \E i \in 1..Len(t) : Lower(t[i]) \in LaughterMarkers THEN "laughter"
    ELSE IF \E i \in 1..Len(t) : Lower(t[i]) \in ExcitementMarkers THEN "excitement"
    ELSE "none"

\* "# Apply opening variation"
ApplyOpeningVariation_NoCeiling(st, idx, pitch_analysis) ==
    IF idx = 0 /\ "script_opening" \in DOMAIN pitch_analysis
    THEN LET opening == pitch_analysis.script_opening
             traj == Get(opening, "pitch_trajectory", "none")
             st1 == IF traj = "rising"
                    THEN LET a == Assign(st, "opening", "style", Style(st) + 1000)
                         IN  Assign(a, "opening", "stability", PyMax(SETTING_MIN, Stability(a) - 500))
                    ELSE IF traj = "falling"
                    THEN Assign(st, "opening", "style", PyMax(SETTING_MIN, Style(st) - 500))
                    ELSE st
         IN  IF Get(opening, "start_pitch_hz", 0) > HIGH_START_PITCH
             THEN Assign(st1, "opening", "style", PyMin(SETTING_MAX, Style(st1) + 500))
             ELSE st1
    ELSE st
ApplyOpeningVariation(st, idx, pitch_analysis) ==
    IF idx = 0 /\ "script_opening" \in DOMAIN pitch_analysis
    THEN LET opening == pitch_analysis.script_opening
             traj == Get(opening, "pitch_trajectory", "none")
             st1 == IF traj = "rising"
                    THEN LET a == Assign(st, "opening", "style", PyMin(SETTING_MAX, Style(st) + 1000))
                         IN  Assign(a, "opening", "stability", PyMax(SETTING_MIN, Stability(a) - 500))
                    ELSE IF traj = "falling"
                    THEN Assign(st, "opening", "style", PyMax(SETTING_MIN, Style(st) - 500))
                    ELSE st
         IN  IF Get(opening, "start_pitch_hz", 0) > HIGH_START_PITCH
             THEN Assign(st1, "opening", "style", PyMin(SETTING_MAX, Style(st1) + 500))
             ELSE st1
    ELSE st

\* "# Apply closing variation"
ApplyClosingVariation(st, idx, total, pitch_analysis) ==
    IF idx = total - 1 /\ "script_closing" \in DOMAIN pitch_analysis
    THEN LET closing == pitch_analysis.script_closing
             st1 == IF Get(closing, "pitch_trajectory", "none") = "falling"
                    THEN LET a == Assign(st, "closing", "style", PyMax(SETTING_MIN, Style(st) - 1000))
                         IN  Assign(a, "closing", "stability", PyMin(SETTING_MAX, Stability(a) + 500))
                    ELSE st
         IN  IF Get(closing, "end_pitch_hz", 0) < LOW_END_PITCH
             THEN Assign(st1, "closing", "style", PyMax(SETTING_MIN, Style(st1) - 500))
             ELSE st1
    ELSE st

\* the per-dialogue rule with the pitch difference taken as end minus start
ApplyPerDialoguePitch_DiffReversed(st, idx, pitch_analysis) ==
    LET per_dialogue == Get(pitch_analysis, "per_dialogue", << >>)
    IN  IF idx < Len(per_dialogue)
        THEN LET dialogue_pitch == per_dialogue[idx + 1]
                 traj == Get(dialogue_pitch, "trajectory", "stable")
                 st1 == IF traj = "falling"
                        THEN Assign(st, "trajectory", "style", PyMin(SETTING_MAX, Style(st) + 500))
                        ELSE IF traj = "rising"
                        THEN Assign(st, "trajectory", "style", PyMax(SETTING_MIN, Style(st) - 500))
                        ELSE st
                 start_pitch == Get(dialogue_pitch, "start_pitch_hz", 0)
                 end_pitch == Get(dialogue_pitch, "end_pitch_hz", 0)
                 pitch_diff == end_pitch - start_pitch
             IN  IF start_pitch > 0 /\ end_pitch > 0
                 THEN IF pitch_diff > PITCH_DIFF_HZ
                      THEN Assign(st1, "pitch_difference", "style", PyMax(SETTING_MIN, Style(st1) - 300))
                      ELSE IF pitch_diff < - PITCH_DIFF_HZ
                      THEN Assign(st1, "pitch_difference", "style", PyMin(SETTING_MAX, Style(st1) + 300))
                      ELSE st1
                 ELSE st1
        ELSE st

\* "# Apply per-dialogue pitch pattern": the entry is taken by position
ApplyPerDialoguePitch(st, idx, pitch_analysis) ==
    LET per_dialogue == Get(pitch_analysis, "per_dialogue", << >>)
    IN  IF idx < Len(per_dialogue)
        THEN LET dialogue_pitch == per_dialogue[idx + 1]
                 traj == Get(dialogue_pitch, "trajectory", "stable")
                 st1 == IF traj = "falling"
                        THEN Assign(st, "trajectory", "style", PyMin(SETTING_MAX, Style(st) + 500))
                        ELSE IF traj = "rising"
                        THEN Assign(st, "trajectory", "style", PyMax(SETTING_MIN, Style(st) - 500))
                        ELSE st
                 start_pitch == Get(dialogue_pitch, "start_pitch_hz", 0)
                 end_pitch == Get(dialogue_pitch, "end_pitch_hz", 0)
                 pitch_diff == start_pitch - end_pitch
             IN  IF start_pitch > 0 /\ end_pitch > 0
                 THEN IF pitch_diff > PITCH_DIFF_HZ
                      THEN Assign(st1, "pitch_difference", "style", PyMax(SETTING_MIN, Style(st1) - 300))
                      ELSE IF pitch_diff < - PITCH_DIFF_HZ
                      THEN Assign(st1, "pitch_difference", "style", PyMin(SETTING_MAX, Style(st1) + 300))
                      ELSE st1
                 ELSE st1
        ELSE st

\* the text rule overwriting stability only
ApplyTextEmotion_StabilityOnly(st, t) ==
    LET emotion == DetectEmotionInText(t)
    IN  IF emotion = "laughter"
        THEN Assign(st, "text_emotion", "stability", 2500)
        ELSE IF emotion = "excitement"
        THEN Assign(st, "text_emotion", "stability", 3500)
        ELSE st

\* "# Apply emotion-based adjustments" from the text's markers
ApplyTextEmotion(st, t) ==
    LET emotion == DetectEmotionInText(t)
    IN  IF emotion = "laughter"
        THEN Assign(Assign(st, "text_emotion", "stability", 2500), "text_emotion", "style", 7500)
        ELSE IF emotion = "excitement"
        THEN Assign(Assign(st, "text_emotion", "stability", 3500), "text_emotion", "style", 6500)
        ELSE st

\* one iteration of "for seg in emotion_segments"
ApplySegment(st, idx, seg) ==
    IF Get(seg, "index", -1) = idx
    THEN LET emotion_type == Get(seg, "emotion_type", "none")
             intensity == Get(seg, "intensity", FALLBACK_INTENSITY)
         IN  IF emotion_type = "laughter"
             THEN Assign(Assign(st, "audio_emotion", "stability", PyMax(SETTING_MIN, 3000 - intensity \div 10)),
                         "audio_emotion", "style", PyMin(SETTING_MAX, 7000 + intensity \div 10))
             ELSE IF emotion_type = "excitement"
             THEN Assign(Assign(st, "audio_emotion", "stability", PyMax(SETTING_MIN, 4000 - intensity \div 10)),
                         "audio_emotion", "style", PyMin(SETTING_MAX, 6000 + intensity \div 10))
             ELSE st
    ELSE st

\* "# Also check emotion analysis from audio": the segments in list order
RECURSIVE ApplyAudioEmotion(_, _, _)
ApplyAudioEmotion(st, idx, emotion_segments) ==
    IF emotion_segments = << >> THEN st
    ELSE ApplyAudioEmotion(ApplySegment(st, idx, Head(emotion_segments)), idx,
                           Tail(emotion_segments))

\* "# Ensure values are in valid range"
FinalClamp_StyleOnly(st) ==
    Assign(st, "final", "style", PyMax(SETTING_MIN, PyMin(SETTING_MAX, Style(st))))
FinalClamp(st) ==
    LET a == Assign(st, "final", "stability", PyMax(SETTING_MIN, PyMin(SETTING_MAX, Stability(st))))
        b == Assign(a, "final", "style", PyMax(SETTING_MIN, PyMin(SETTING_MAX, Style(a))))
    IN  Assign(b, "final", "similarity_boost",
               PyMax(BOOST_MIN, PyMin(BOOST_MAX, Get(b.settings, "similarity_boost",
                                                     FALLBACK_BOOST))))

\* get_dialogue_settings_version_b as a function of its arguments: the
\* returned dictionary and the log of its assignments
VersionB(idx, total, t, config, defaults) ==
    LET base == [ settings |-> Get(config, "recommended_elevenlabs_settings", defaults),
                  log |-> {} ]
        pitch_analysis == Get(config, "pitch_analysis", << >>)
        emotion_analysis == Get(config, "emotion_analysis", << >>)
        s1 == ApplyOpeningVariation(base, idx, pitch_analysis)
        s2 == ApplyClosingVariation(s1, idx, total, pitch_analysis)
        s3 == ApplyPerDialoguePitch(s2, idx, pitch_analysis)
        s4 == ApplyTextEmotion(s3, t)
        s5 == ApplyAudioEmotion(s4, idx, Get(emotion_analysis, "emotion_segments", << >>))
    IN  FinalClamp(s5)

\* the texts drawn, as token sequences
DialogueTexts ==
    { << "namaste" >>,
      << "arey", "(LAUGHS)" >>,
      << "(excited)", "wah" >>,
      << "(surprised)", "(giggles)" >> }

\* base_settings bound to the dictionary found, without the .copy()
BaseSettingsObject_NoCopy(config) ==
    IF "recommended_elevenlabs_settings" \in DOMAIN config
    THEN "recommended_elevenlabs_settings" ELSE "DEFAULT_SETTINGS"

\* the dictionary object base_settings is bound to:
\* analysis_config.get("recommended_elevenlabs_settings", DEFAULT_SETTINGS)
\* .copy() is a new dictionary (its values are numbers, strings and booleans)
BaseSettingsObject(config) == "copy"

\* a call of get_dialogue_settings_version_b; every assignment to
\* base_settings[...] lands in the object base_settings is bound to
GetDialogueSettingsVersionB ==
    /\ dlg_pc = "idle"
    /\ \E total \in 1..MaxDialogues, t \in DialogueTexts :
        \E idx \in 0..(total - 1) :
            LET r == VersionB(idx, total, t, analysis_config, DEFAULT_SETTINGS)
                object == BaseSettingsObject(analysis_config)
            IN  /\ dialogue_index' = idx
                /\ total_dialogues' = total
                /\ text' = t
                /\ settings' = r.settings
                /\ assigned' = r.log
                /\ DEFAULT_SETTINGS' =
                       IF object = "DEFAULT_SETTINGS" THEN r.settings
                       ELSE DEFAULT_SETTINGS
                /\ analysis_config' =
                       IF object = "recommended_elevenlabs_settings"
                       THEN Put(analysis_config, "recommended_elevenlabs_settings",
                                r.settings)
                       ELSE analysis_config
    /\ version' = "B"
    /\ dlg_pc' = "returned"

\* a call of get_dialogue_settings_version_a: DEFAULT_SETTINGS.copy()
GetDialogueSettingsVersionA ==
    /\ dlg_pc = "idle"
    /\ \E total \in 1..MaxDialogues, t \in DialogueTexts :
        \E idx \in 0..(total - 1) :
            /\ dialogue_index' = idx
            /\ total_dialogues' = total
            /\ text' = t
    /\ settings' = DEFAULT_SETTINGS
    /\ assigned' = {}
    /\ version' = "A"
    /\ dlg_pc' = "returned"
    /\ UNCHANGED << DEFAULT_SETTINGS, analysis_config >>

\* the caller takes the returned dictionary; the next call starts afresh
ReturnSettings ==
    /\ dlg_pc = "returned"
    /\ dialogue_index' = -1
    /\ total_dialogues' = 0
    /\ text' = << >>
    /\ version' = "none"
    /\ settings' = << >>
    /\ assigned' = {}
    /\ dlg_pc' = "idle"
    /\ UNCHANGED << DEFAULT_SETTINGS, analysis_config >>

\* a recommended_elevenlabs_settings record
SettingsRecord(stab, boost, sty) ==
    [ stability |-> stab,
      similarity_boost |-> boost,
      style |-> sty,
      use_speaker_boost |-> TRUE,
      output_format |-> "mp3_44100_128",
      model_id |-> "eleven_multilingual_v2",
      pause_duration_seconds |-> 3000 ]

\* The base records drawn: both fields on a limit, both outside the limits
\* (a hand-edited analysis file), similarity_boost outside its limits, and
\* an empty dictionary.
BaseRecords ==
    { SettingsRecord(1000, 7500, 1000), SettingsRecord(1000, 7500, 9000),
      SettingsRecord(9000, 7500, 1000), SettingsRecord(9000, 7500, 9000),
      SettingsRecord(-5000, 7500, 12000),
      SettingsRecord(3500, 2000, 5500), SettingsRecord(3500, 12000, 5500),
      << >> }

RecommendedOptions ==
    { << >> } \cup { [ recommended_elevenlabs_settings |-> r ] : r \in BaseRecords }

OpeningOptions ==
    { << >>,
      [ script_opening |-> [ pitch_trajectory |-> "rising", start_pitch_hz |-> 200 ] ],
      [ script_opening |-> [ pitch_trajectory |-> "falling", start_pitch_hz |-> 150 ] ] }

ClosingOptions ==
    { << >>,
      [ script_closing |-> [ pitch_trajectory |-> "falling", end_pitch_hz |-> 150 ] ],
      [ script_closing |-> [ pitch_trajectory |-> "rising", end_pitch_hz |-> 150 ] ] }

\* a per_dialogue entry of segment i
DialoguePitch(i, traj, start_pitch, end_pitch) ==
    [ index |-> i, trajectory |-> traj,
      start_pitch_hz |-> start_pitch, end_pitch_hz |-> end_pitch ]

\* per_dialogue lists: empty, or the entry of one segment (the analyzer
\* leaves out a segment whose start or end pitch is 0).  The entries drawn:
\* a drop and a rise of 70 Hz under the label the contour usually gets and
\* under the label stable, a difference of 5 Hz, and an entry of a
\* hand-edited file with start pitch 0.
PerDialogueLists ==
    { << >> } \cup
    { << DialoguePitch(i, k[1], k[2], k[3]) >> :
        i \in 0..(MaxDialogues - 1),
        k \in { << "falling", 220, 150 >>, << "rising", 150, 220 >>,
                << "stable", 200, 195 >>, << "stable", 220, 150 >>,
                << "stable", 150, 220 >>, << "stable", 0, 150 >> } }

\* emotion_segments lists: empty, or one segment: laughter of intensity 1.0,
\* laughter of an intensity far outside [0, 1], and excitement without an
\* intensity (read as 0.5)
EmotionSegmentLists ==
    { << >> } \cup
    { << [ index |-> i, emotion_type |-> "laughter", intensity |-> x ] >> :
        i \in 0..(MaxDialogues - 1), x \in { 10000, -100000 } }
    \cup { << [ index |-> i, emotion_type |-> "excitement" ] >> :
             i \in 0..(MaxDialogues - 1) }

PitchAnalysisOptions ==
    { o @@ c @@ [ per_dialogue |-> p ] :
        o \in OpeningOptions, c \in ClosingOptions, p \in PerDialogueLists }

AnalysisConfigs ==
    { r @@ [ pitch_analysis |-> pa ]
        @@ [ emotion_analysis |-> [ emotion_segments |-> es ] ] :
        r \in RecommendedOptions, pa \in PitchAnalysisOptions,
        es \in EmotionSegmentLists }
    \cup RecommendedOptions

InitDlg ==
    /\ DEFAULT_SETTINGS = DefaultSettingsDict
    /\ analysis_config \in AnalysisConfigs
    /\ dialogue_index = -1
    /\ total_dialogues = 0
    /\ text = << >>
    /\ version = "none"
    /\ settings = << >>
    /\ assigned = {}
    /\ dlg_pc = "idle"

DlgOff ==
    /\ DEFAULT_SETTINGS = << >>
    /\ analysis_config = << >>
    /\ dialogue_index = -1
    /\ total_dialogues = 0
    /\ text = << >>
    /\ version = "none"
    /\ settings = << >>
    /\ assigned = {}
    /\ dlg_pc = "off"

-----------------------------------------------------------------------------
(* Emotion analysis: AudioAnalyzer._analyze_emotions, _detect_laughter,    *)
(* _detect_excitement and _extract_pitch_contour.                          *)
(*                                                                         *)
(* A segment of audio is carried as the record of what librosa computes    *)
(* from it: the per-frame output of pyin (NaN on an unvoiced frame), the   *)
(* per-frame pitch picked from piptrack (0 where nothing is above the      *)
(* threshold), whether either call raised, the mean spectral centroid in   *)
(* Hz and the mean RMS in units of 1/10000.  Onset times are in tenths of  *)
(* a second and sr is in samples per second.                               *)

VARIABLES
    onsets,            \* the onsets argument, times in tenths of a second
    sr,                \* the sample rate argument
    y_len,             \* len(y)
    seg_i,             \* i, the index the loop is about to process
    segment_start,     \* segment_start of the last iteration
    segment_end,       \* segment_end of the last iteration
    segment_y,         \* the features of y[segment_start:segment_end]
    segment_duration,  \* len(segment_y) / sr, in units of 1/10000 s
    segment_contour,   \* pitch_contour of the last segment
    laughter_score,    \* laughter_score of the last segment
    excitement_score,  \* excitement_score of the last segment
    pitch_score,       \* pitch_score inside _detect_excitement
    energy_score,      \* energy_score inside _detect_excitement
    spike_score,       \* spike_score inside _detect_excitement
    emotion_type,      \* emotion_type of the last segment
    intensity,         \* intensity of the last segment
    emotion_segments,  \* the emotion_segments list
    emotion_counts,    \* the emotion_counts dictionary
    emotion_analysis,  \* self.emotion_analysis
    emo_pc             \* position: "loop", "done"; "score", "laughter_scored",
                       \* "excitement_scored", "classified" for one segment

emoVars == << onsets, sr, y_len, seg_i, segment_start, segment_end, segment_y,
              segment_duration, segment_contour, laughter_score,
              excitement_score, pitch_score, energy_score, spike_score,
              emotion_type, intensity, emotion_segments, emotion_counts,
              emotion_analysis, emo_pc >>

\* the most onsets drawn, and the most frames of a pitch tracker's output
MaxOnsets == 3
MaxPitchFrames == 3

\* np.nan in the output of pyin
NaN == -1

LAUGHTER_THRESHOLD == 6000
EXCITEMENT_THRESHOLD == 5000
NEUTRAL_INTENSITY == 3000
RETAIN_THRESHOLD == 4000
SCORE_CAP == 10000
MIN_LAUGHTER_CONTOUR == 3
CENTROID_NORMALIZER == 2000
PITCH_BASELINE_HZ == 150
PITCH_RANGE_HZ == 100
ENERGY_GAIN == 10
SPIKE_RANGE_HZ == 50
SPIKE_MIN_CONTOUR == 2

\* pitches[~np.isnan(pitches)]
IsValidPitch(p) == p # NaN
\* the piptrack loop keeps a frame's pitch when pitch > 0
IsPositivePitch(p) == p > 0

\* _extract_pitch_contour handing back the piptrack list even when empty
ExtractPitchContour_EmptyFallback(y) ==
    LET valid_pitches == SelectSeq(y.pyin, IsValidPitch)
        pitch_values == SelectSeq(y.piptrack, IsPositivePitch)
    IN  IF ~y.pyin_failed /\ Len(valid_pitches) > 0 THEN valid_pitches
        ELSE IF y.piptrack_failed THEN << 0 >>
        ELSE pitch_values

\* _extract_pitch_contour: the voiced pyin frames when pyin exists, does not
\* raise and finds a voiced frame; otherwise the positive piptrack frames;
\* otherwise the one-sample contour [0.0]
ExtractPitchContour(y) ==
    LET valid_pitches == SelectSeq(y.pyin, IsValidPitch)
        pitch_values == SelectSeq(y.piptrack, IsPositivePitch)
    IN  IF ~y.pyin_failed /\ Len(valid_pitches) > 0 THEN valid_pitches
        ELSE IF y.piptrack_failed THEN << 0 >>
        ELSE IF Len(pitch_values) > 0 THEN pitch_values
        ELSE << 0 >>

RECURSIVE SumSquares(_)
SumSquares(s) == IF s = << >> THEN 0 ELSE Head(s) * Head(s) + SumSquares(Tail(s))

\* the largest r with r * r <= n, by bisection on lo..hi
RECURSIVE SqrtBetween(_, _, _)
SqrtBetween(n, lo, hi) ==
    IF lo >= hi THEN lo
    ELSE LET mid == (lo + hi + 1) \div 2
         IN  IF mid * mid <= n THEN SqrtBetween(n, mid, hi)
             ELSE SqrtBetween(n, lo, mid - 1)
Isqrt(n) == SqrtBetween(n, 0, PyMin(n, 46340))

\* np.std(c) / np.mean(c) = sqrt(n * sum(x^2) - sum(x)^2) / sum(x), in units
\* of 1/10000, truncated to the resolution of the integer square root
StdOverMean(c) ==
    LET n == Len(c)
        total == SumSeq(c)
        spread == n * SumSquares(c) - total * total
    IN  (1000 * Isqrt(100 * spread)) \div total

\* _detect_laughter without the test on the contour's length
DetectLaughter_NoLengthCheck(y) ==
    LET contour == ExtractPitchContour(y)
        pitch_variation ==
            IF SumSeq(contour) > 0 THEN StdOverMean(contour) ELSE 0
    IN  PyMin(SCORE_CAP,
              (5 * pitch_variation
               + (3 * SCORE_CAP * y.spectral_centroid) \div CENTROID_NORMALIZER)
              \div 10)

\* _detect_laughter: 0.0 on fewer than 3 samples, otherwise
\* min(1.0, pitch_variation * 0.5 + (spectral_centroid / 2000.0) * 0.3);
\* the mean of a contour is positive exactly when its sum is
DetectLaughter(y) ==
    LET contour == ExtractPitchContour(y)
        pitch_variation ==
            IF SumSeq(contour) > 0 THEN StdOverMean(contour) ELSE 0
    IN  IF Len(contour) < MIN_LAUGHTER_CONTOUR THEN 0
        ELSE PyMin(SCORE_CAP,
                   (5 * pitch_variation
                    + (3 * SCORE_CAP * y.spectral_centroid) \div CENTROID_NORMALIZER)
                   \div 10)

\* min(1.0, (avg_pitch - 150) / 100) if avg_pitch > 150 else 0.0, with
\* avg_pitch = sum / n
PitchScore(contour) ==
    LET n == Len(contour)
        total == SumSeq(contour)
    IN  IF total > PITCH_BASELINE_HZ * n
        THEN PyMin(SCORE_CAP,
                   (SCORE_CAP * (total - PITCH_BASELINE_HZ * n)) \div (PITCH_RANGE_HZ * n))
        ELSE 0

\* the energy score without its cap
EnergyScore_Uncapped(rms_mean) == rms_mean * ENERGY_GAIN

\* min(1.0, np.mean(rms) * 10)
EnergyScore(rms_mean) == PyMin(SCORE_CAP, rms_mean * ENERGY_GAIN)

AbsDiff(a, b) == IF a >= b THEN a - b ELSE b - a

\* np.max(np.abs(np.diff(c))) of a contour with at least two samples
RECURSIVE MaxAbsChange(_)
MaxAbsChange(c) ==
    IF Len(c) <= 2 THEN AbsDiff(c[1], c[2])
    ELSE LET rest == MaxAbsChange(Tail(c))
             first == AbsDiff(c[1], c[2])
         IN  IF rest > first THEN rest ELSE first

\* the spike score computed for every contour with a difference
SpikeScore_AnyLength(contour) ==
    IF Len(contour) > 1
    THEN PyMin(SCORE_CAP, (SCORE_CAP * MaxAbsChange(contour)) \div SPIKE_RANGE_HZ)
    ELSE 0

\* min(1.0, max |diff| / 50.0) when len(pitch_contour) > 2, else 0.0
SpikeScore(contour) ==
    IF Len(contour) > SPIKE_MIN_CONTOUR
    THEN PyMin(SCORE_CAP, (SCORE_CAP * MaxAbsChange(contour)) \div SPIKE_RANGE_HZ)
    ELSE 0

\* _detect_excitement: its three sub-scores and
\* min(1.0, pitch_score * 0.3 + energy_score * 0.4 + spike_score * 0.3)
DetectExcitement(y) ==
    LET contour == ExtractPitchContour(y)
    IN  IF Len(contour) = 0
        THEN [ pitch_score |-> 0, energy_score |-> 0, spike_score |-> 0,
               excitement_score |-> 0 ]
        ELSE LET p == PitchScore(contour)
                 e == EnergyScore(y.rms_mean)
                 s == SpikeScore(contour)
             IN  [ pitch_score |-> p, energy_score |-> e, spike_score |-> s,
                   excitement_score |-> PyMin(SCORE_CAP, (3 * p + 4 * e + 3 * s) \div 10) ]

\* the classification with excitement tested first
ClassifyEmotion_ExcitementFirst(laughter, excitement) ==
    IF excitement > EXCITEMENT_THRESHOLD
    THEN [ emotion_type |-> "excitement", intensity |-> PyMin(SCORE_CAP, excitement) ]
    ELSE IF laughter > LAUGHTER_THRESHOLD
    THEN [ emotion_type |-> "laughter", intensity |-> PyMin(SCORE_CAP, laughter) ]
    ELSE [ emotion_type |-> "neutral", intensity |-> NEUTRAL_INTENSITY ]

\* the if / elif / else of the loop body
ClassifyEmotion(laughter, excitement) ==
    IF laughter > LAUGHTER_THRESHOLD
    THEN [ emotion_type |-> "laughter", intensity |-> PyMin(SCORE_CAP, laughter) ]
    ELSE IF excitement > EXCITEMENT_THRESHOLD
    THEN [ emotion_type |-> "excitement", intensity |-> PyMin(SCORE_CAP, excitement) ]
    ELSE [ emotion_type |-> "neutral", intensity |-> NEUTRAL_INTENSITY ]

\* a retention test that lets the neutral intensity through
IsSignificant_AboveZero(x) == x > 0

\* if intensity > 0.4
IsSignificant(x) == x > RETAIN_THRESHOLD

\* int(onsets[k] * sr) for the k-th onset, counted from 1
OnsetSample(times, rate, k) == (times[k] * rate) \div 10

\* len(y[a:b]) for 0 <= a
SliceLen(length, a, b) ==
    LET hi == PyMin(b, length)
        lo == PyMin(a, length)
    IN  IF hi > lo THEN hi - lo ELSE 0

SegmentRecord(pf, p, tf, t, c, r) ==
    [ pyin_failed |-> pf, pyin |-> p, piptrack_failed |-> tf, piptrack |-> t,
      spectral_centroid |-> c, rms_mean |-> r ]

\* before any segment has been cut
NoSegment == SegmentRecord(FALSE, << >>, FALSE, << >>, 0, 0)

\* all sequences over S of length 0..n
SeqsUpTo(S, n) == UNION { [ 1..k -> S ] : k \in 0..n }

\* per-frame values drawn: pyin yields NaN or a pitch in its range (140, 160
\* and 300 Hz: means below, on and above the 150 Hz baseline, jumps of 20 Hz
\* and of more than 50 Hz); piptrack yields 0 or a pitch of at least its
\* fmin of 150 Hz
PyinValues == { NaN, 140, 160, 300 }
PiptrackValues == { 0, 160, 300 }

\* mean spectral centroids (Hz) and mean RMS values (1/10000) drawn: 0.1 is
\* where energy_score reaches 1.0
CentroidInputs == { 0, 1000, 3000, 8000 }
RmsInputs == { 0, 300, 1000, 2000 }

\* what pyin can hand back: it is absent or raises, or it returns its frames
PyinOutcomes ==
    { [ pyin_failed |-> TRUE, pyin |-> << >> ] }
    \cup { [ pyin_failed |-> FALSE, pyin |-> p ] : p \in SeqsUpTo(PyinValues, MaxPitchFrames) }

\* piptrack runs only when pyin gave no voiced frame: it raises or returns
PiptrackOutcomes(po) ==
    IF ~po.pyin_failed /\ Len(SelectSeq(po.pyin, IsValidPitch)) > 0
    THEN { [ piptrack_failed |-> FALSE, piptrack |-> << >> ] }
    ELSE { [ piptrack_failed |-> TRUE, piptrack |-> << >> ] }
         \cup { [ piptrack_failed |-> FALSE, piptrack |-> t ] :
                  t \in SeqsUpTo(PiptrackValues, MaxPitchFrames) }

\* the segments handed to the detectors on their own
SegmentAudio ==
    UNION { { po @@ to @@ [ spectral_centroid |-> c, rms_mean |-> r ] :
                to \in PiptrackOutcomes(po), c \in CentroidInputs, r \in RmsInputs } :
            po \in PyinOutcomes }

\* the segments drawn inside the loop: laughter and excitement at once,
\* excitement alone, laughter alone, laughter at the cap, a flat quiet
\* voice, and a loud bright segment without a voiced frame
LoopSegmentAudio ==
    { SegmentRecord(FALSE, << 140, 300, 140 >>, FALSE, << >>, 3000, 2000),
      SegmentRecord(FALSE, << 140, 300, 140 >>, FALSE, << >>, 1000, 2000),
      SegmentRecord(FALSE, << 140, 300, 140 >>, FALSE, << >>, 3000, 0),
      SegmentRecord(FALSE, << 140, NaN, 300, 140 >>, FALSE, << >>, 8000, 300),
      SegmentRecord(FALSE, << 160, 160, 160 >>, FALSE, << >>, 1000, 100),
      SegmentRecord(TRUE, << >>, FALSE, << 0, 0 >>, 8000, 2000) }

\* onset times drawn (tenths of a second), sample rates and audio lengths
OnsetTimes == { 0, 2, 3, 5 }
SampleRates == { 5, 10 }
AudioLengths == { 2, 5 }

\* onset_detect(units='time', backtrack=True) returns non-decreasing times
\* (backtracking can move two onsets onto one minimum) inside the audio
OnsetLists ==
    { o \in SeqsUpTo(OnsetTimes, MaxOnsets) :
        \A k \in 1..(Len(o) - 1) : o[k] <= o[k + 1] }

LocalsUnset ==
    /\ segment_start = 0
    /\ segment_end = 0
    /\ segment_duration = 0
    /\ segment_contour = << >>
    /\ laughter_score = 0
    /\ excitement_score = 0
    /\ pitch_score = 0
    /\ energy_score = 0
    /\ spike_score = 0
    /\ emotion_type = "none"
    /\ intensity = 0

\* entry of _analyze_emotions
InitEmo ==
    /\ onsets \in OnsetLists
    /\ sr \in SampleRates
    /\ y_len \in AudioLengths
    /\ \A k \in 1..Len(onsets) : OnsetSample(onsets, sr, k) <= y_len
    /\ seg_i = 0
    /\ segment_y = NoSegment
    /\ LocalsUnset
    /\ emotion_segments = << >>
    /\ emotion_counts = [ laughter |-> 0, excitement |-> 0, neutral |-> 0 ]
    /\ emotion_analysis = << >>
    /\ emo_pc = "loop"

\* the detectors and the classification on one segment, outside the loop
InitScore ==
    /\ onsets = << >>
    /\ sr = 0
    /\ y_len = 0
    /\ seg_i = 0
    /\ segment_y \in SegmentAudio
    /\ LocalsUnset
    /\ emotion_segments = << >>
    /\ emotion_counts = << >>
    /\ emotion_analysis = << >>
    /\ emo_pc = "score"

EmoOff ==
    /\ onsets = << >>
    /\ sr = 0
    /\ y_len = 0
    /\ seg_i = 0
    /\ segment_y = NoSegment
    /\ LocalsUnset
    /\ emotion_segments = << >>
    /\ emotion_counts = << >>
    /\ emotion_analysis = << >>
    /\ emo_pc = "off"

\* one iteration of the loop of _analyze_emotions: the segment's limits, the
\* continue on an empty segment, both detectors, the classification, the
\* counter and the append
AnalyzeSegment ==
    /\ emo_pc = "loop"
    /\ seg_i < Len(onsets)
    /\ LET start == OnsetSample(onsets, sr, seg_i + 1)
           end == IF seg_i < Len(onsets) - 1
                  THEN OnsetSample(onsets, sr, seg_i + 2)
                  ELSE y_len
       IN  /\ segment_start' = start
           /\ segment_end' = end
           /\ seg_i' = seg_i + 1
           /\ IF end <= start
              THEN UNCHANGED << segment_y, segment_duration, segment_contour,
                                laughter_score, excitement_score, pitch_score,
                                energy_score, spike_score, emotion_type,
                                intensity, emotion_segments, emotion_counts >>
              ELSE \E y \in LoopSegmentAudio :
                     LET duration == (SCORE_CAP * SliceLen(y_len, start, end)) \div sr
                         laughter == DetectLaughter(y)
                         excitement == DetectExcitement(y)
                         label == ClassifyEmotion(laughter, excitement.excitement_score)
                     IN  /\ segment_y' = y
                         /\ segment_duration' = duration
                         /\ segment_contour' = ExtractPitchContour(y)
                         /\ laughter_score' = laughter
                         /\ excitement_score' = excitement.excitement_score
                         /\ pitch_score' = excitement.pitch_score
                         /\ energy_score' = excitement.energy_score
                         /\ spike_score' = excitement.spike_score
                         /\ emotion_type' = label.emotion_type
                         /\ intensity' = label.intensity
                         /\ emotion_counts' =
                              [ emotion_counts EXCEPT ![label.emotion_type] = @ + 1 ]
                         /\ emotion_segments' =
                              IF IsSignificant(label.intensity)
                              THEN Append(emotion_segments,
                                          [ index |-> seg_i,
                                            emotion_type |-> label.emotion_type,
                                            intensity |-> label.intensity,
                                            duration_seconds |-> duration ])
                              ELSE emotion_segments
    /\ UNCHANGED << onsets, sr, y_len, emotion_analysis, emo_pc >>

\* after the loop: self.emotion_analysis is stored
StoreEmotionAnalysis ==
    /\ emo_pc = "loop"
    /\ seg_i = Len(onsets)
    /\ emotion_analysis' = [ emotion_segments |-> emotion_segments,
                             emotion_distribution |-> emotion_counts ]
    /\ emo_pc' = "done"
    /\ UNCHANGED << onsets, sr, y_len, seg_i, segment_start, segment_end,
                    segment_y, segment_duration, segment_contour,
                    laughter_score, excitement_score, pitch_score,
                    energy_score, spike_score, emotion_type, intensity,
                    emotion_segments, emotion_counts >>

\* self._detect_laughter(segment_y, sr) on its own
DetectLaughterCall ==
    /\ emo_pc = "score"
    /\ segment_contour' = ExtractPitchContour(segment_y)
    /\ laughter_score' = DetectLaughter(segment_y)
    /\ emo_pc' = "laughter_scored"
    /\ UNCHANGED << onsets, sr, y_len, seg_i, segment_start, segment_end,
                    segment_y, segment_duration, excitement_score, pitch_score,
                    energy_score, spike_score, emotion_type, intensity,
                    emotion_segments, emotion_counts, emotion_analysis >>

\* self._detect_excitement(segment_y, sr) on its own
DetectExcitementCall ==
    /\ emo_pc = "laughter_scored"
    /\ LET excitement == DetectExcitement(segment_y)
       IN  /\ excitement_score' = excitement.excitement_score
           /\ pitch_score' = excitement.pitch_score
           /\ energy_score' = excitement.energy_score
           /\ spike_score' = excitement.spike_score
    /\ emo_pc' = "excitement_scored"
    /\ UNCHANGED << onsets, sr, y_len, seg_i, segment_start, segment_end,
                    segment_y, segment_duration, segment_contour,
                    laughter_score, emotion_type, intensity,
                    emotion_segments, emotion_counts, emotion_analysis >>

\* the if / elif / else of the loop body on the two scores
ClassifyCall ==
    /\ emo_pc = "excitement_scored"
    /\ LET label == ClassifyEmotion(laughter_score, excitement_score)
       IN  /\ emotion_type' = label.emotion_type
           /\ intensity' = label.intensity
    /\ emo_pc' = "classified"
    /\ UNCHANGED << onsets, sr, y_len, seg_i, segment_start, segment_end,
                    segment_y, segment_duration, segment_contour,
                    laughter_score, excitement_score, pitch_score,
                    energy_score, spike_score, emotion_segments,
                    emotion_counts, emotion_analysis >>

-----------------------------------------------------------------------------
(* Timing analysis: AudioAnalyzer._analyze_timing_patterns.                *)
(*                                                                         *)
(* The stage is carried by what librosa hands it: the onset times (tenths  *)
(* of a second), the mask rms < rms_threshold over the RMS frames, and the *)
(* number of major onsets.  Durations in the record are in units of        *)
(* 1/10000 s.  A float that can be nan is carried as a record              *)
(* [nan, value]: np.std of an empty list is nan, and nan passes through    *)
(* the division, the subtraction and float().                              *)

VARIABLES
    tim_onsets,      \* onsets, as returned by onset_detect at line 215
    tim_sr,          \* the sr argument
    silence_frames,  \* silence_frames = rms < rms_threshold
    major_onsets,    \* len(major_onsets)
    tim_raised,      \* whether onset detection raised inside the try
    tim_pc           \* "ready" before _analyze_timing_patterns, "done" after

timVars == << tim_onsets, tim_sr, silence_frames, major_onsets, tim_raised, tim_pc >>

\* the most RMS frames drawn
MaxRmsFrames == 3

FALLBACK_AVG_PAUSE == 3000
FALLBACK_MIN_PAUSE == 1000
FALLBACK_MAX_PAUSE == 10000
FALLBACK_REGULARITY == 5000
HOP_LENGTH == 512
ONE == 10000

Float(x) == [ nan |-> FALSE, value |-> x ]
NanFloat == [ nan |-> TRUE, value |-> 0 ]

\* pause_durations: the gaps of consecutive onsets, in units of 1/10000 s
\* (empty unless len(onsets) > 1)
PauseDurations(times) ==
    IF Len(times) > 1
    THEN [ k \in 1..(Len(times) - 1) |-> 1000 * (times[k + 1] - times[k]) ]
    ELSE << >>

RECURSIVE SeqMin(_)
SeqMin(s) ==
    IF Len(s) = 1 THEN s[1]
    ELSE LET rest == SeqMin(Tail(s)) IN IF rest < s[1] THEN rest ELSE s[1]

RECURSIVE SeqMax(_)
SeqMax(s) ==
    IF Len(s) = 1 THEN s[1]
    ELSE LET rest == SeqMax(Tail(s)) IN IF rest > s[1] THEN rest ELSE s[1]

\* np.mean of a non-empty list
SeqMean(s) == SumSeq(s) \div Len(s)

\* np.mean(pause_durations) if pause_durations else 0.3
AvgPause(pause_durations) ==
    IF pause_durations # << >> THEN SeqMean(pause_durations) ELSE FALLBACK_AVG_PAUSE

\* min_pause taken from the first gap instead of the smallest
MinPause_FirstGap(pause_durations) ==
    IF pause_durations # << >> THEN pause_durations[1] ELSE FALLBACK_MIN_PAUSE

\* np.min(pause_durations) if pause_durations else 0.1
MinPause(pause_durations) ==
    IF pause_durations # << >> THEN SeqMin(pause_durations) ELSE FALLBACK_MIN_PAUSE

\* np.max(pause_durations) if pause_durations else 1.0
MaxPause(pause_durations) ==
    IF pause_durations # << >> THEN SeqMax(pause_durations) ELSE FALLBACK_MAX_PAUSE

\* librosa.frames_to_time(i, sr=sr, hop_length=hop_length), in units of
\* 1/10000 s
FramesToTime(frame, rate) == (frame * HOP_LENGTH * ONE) \div rate

\* the loop over silence_frames from frame k (counted from 1) on:
\* current_silence_start is -1 for None; the list built is returned
RECURSIVE SilenceDurations(_, _, _, _, _)
SilenceDurations(frames, k, current_silence_start, durations, rate) ==
    IF k > Len(frames) THEN durations
    ELSE LET time == FramesToTime(k - 1, rate)
         IN  IF frames[k] /\ current_silence_start = -1
             THEN SilenceDurations(frames, k + 1, time, durations, rate)
             ELSE IF ~frames[k] /\ current_silence_start # -1
             THEN SilenceDurations(frames, k + 1, -1,
                                   Append(durations, time - current_silence_start), rate)
             ELSE SilenceDurations(frames, k + 1, current_silence_start, durations, rate)

\* avg_silence: the mean silence run, or avg_pause when no frame is silent
\* or no run has ended
AvgSilence(frames, rate, avg_pause) ==
    IF \E k \in 1..Len(frames) : frames[k]
    THEN LET silence_durations == SilenceDurations(frames, 1, -1, << >>, rate)
         IN  IF silence_durations # << >> THEN SeqMean(silence_durations) ELSE avg_pause
    ELSE avg_pause

\* 1.0 - (np.std(pause_durations) / avg_pause) if avg_pause > 0 else 0.5
\* np.std of the empty list is nan.  With pauses, avg_pause is their mean and
\* the quotient does not depend on the unit: it is taken on the pauses in
\* tenths of a second, which keeps the squares within 32 bits
SpeechRhythmRegularity(pause_durations, avg_pause) ==
    IF avg_pause > 0
    THEN IF pause_durations = << >> THEN NanFloat
         ELSE Float(ONE - StdOverMean([ k \in 1..Len(pause_durations) |->
                                           pause_durations[k] \div 1000 ]))
    ELSE Float(FALLBACK_REGULARITY)

\* the whole method: onset detection raising sends it to the except branch
AnalyzeTimingPatterns ==
    /\ tim_pc = "ready"
    /\ \E raised \in BOOLEAN :
        /\ tim_raised' = raised
        /\ IF raised
           THEN timing_analysis' = ErrorRecord
           ELSE LET pause_durations == PauseDurations(tim_onsets)
                    avg_pause == AvgPause(pause_durations)
                IN  timing_analysis' =
                      [ average_pause_duration_seconds |-> avg_pause,
                        min_pause_duration |-> MinPause(pause_durations),
                        max_pause_duration |-> MaxPause(pause_durations),
                        average_silence_duration |->
                            AvgSilence(silence_frames, tim_sr, avg_pause),
                        segment_count |-> major_onsets,
                        total_onsets |-> Len(tim_onsets),
                        speech_rhythm_regularity |->
                            SpeechRhythmRegularity(pause_durations, avg_pause) ]
    /\ tim_pc' = "done"
    /\ UNCHANGED << tim_onsets, tim_sr, silence_frames, major_onsets,
                    audio_properties, voice_characteristics, audio_quality,
                    recommended_settings, map_pc, map_raised >>

\* the most frames of n that can lie strictly below np.percentile(rms, 20):
\* the percentile is interpolated at position 0.2 * (n - 1) of the sorted
\* values, so only the values before that position can be below it
MaxSilentFrames(n) ==
    IF (2 * (n - 1)) % 10 = 0 THEN (n - 1) \div 5 ELSE (n - 1) \div 5 + 1

\* masks rms < np.percentile(rms, 20): at least one frame, and no more
\* silent frames than the percentile allows
SilenceMasks ==
    { m \in SeqsUpTo(BOOLEAN, MaxRmsFrames) :
        /\ Len(m) > 0
        /\ Cardinality({ k \in 1..Len(m) : m[k] }) <= MaxSilentFrames(Len(m)) }

TimingSampleRates == { 22050 }
MajorOnsetCounts == { 0, 2 }

\* step 4 of analyze(): the fields as __init__ left them
InitTiming ==
    /\ tim_onsets \in OnsetLists
    /\ tim_sr \in TimingSampleRates
    /\ silence_frames \in SilenceMasks
    /\ major_onsets \in MajorOnsetCounts
    /\ tim_raised = FALSE
    /\ tim_pc = "ready"
    /\ audio_properties = << >>
    /\ voice_characteristics = << >>
    /\ timing_analysis = << >>
    /\ audio_quality = << >>
    /\ recommended_settings = << >>
    /\ map_pc = "off"
    /\ map_raised = FALSE

TimOff ==
    /\ tim_onsets = << >>
    /\ tim_sr = 0
    /\ silence_frames = << >>
    /\ major_onsets = 0
    /\ tim_raised = FALSE
    /\ tim_pc = "off"

-----------------------------------------------------------------------------
(* Audio quality: AudioAnalyzer._analyze_audio_quality.                    *)
(*                                                                         *)
(* The buffer is carried by its framed RMS (units of 1/10000) and by the   *)
(* magnitudes of its FFT bins; bin k (from 0) of an n-point FFT at rate sr *)
(* has frequency k * sr / n for k <= (n - 1) // 2 and (k - n) * sr / n     *)
(* above, so a comparison freq <= f is the integer comparison              *)
(* k * sr <= f * n.  dynamic_range_db is in whole dB.                      *)

VARIABLES
    q_rms,           \* rms = librosa.feature.rms(y=y)[0]
    magnitude,       \* magnitude = np.abs(np.fft.fft(y))
    q_sr,            \* the sr argument
    low_freq_mask,   \* the bins (from 1) selected by low_freq_mask
    mid_freq_mask,   \* the bins selected by mid_freq_mask
    high_freq_mask,  \* the bins selected by high_freq_mask
    low_energy,      \* low_energy
    mid_energy,      \* mid_energy
    high_energy,     \* high_energy
    total_energy,    \* total_energy
    q_raised,        \* whether a call inside the try raised
    q_pc             \* "ready" before _analyze_audio_quality, "done" after

qualVars == << q_rms, magnitude, q_sr, low_freq_mask, mid_freq_mask,
               high_freq_mask, low_energy, mid_energy, high_energy,
               total_energy, q_raised, q_pc >>

\* the longest buffer (FFT length) drawn
MaxFftBins == 5

LOW_BAND_HZ == 300
MID_BAND_HZ == 3000
HIGH_BAND_HZ == 8000
ZERO_ENERGY_CLARITY == 5000
DB_PER_DECADE == 20

\* np.fft.fftfreq(n, 1/sr)[k - 1] * n for bin k counted from 1
FreqTimesN(k, n, rate) ==
    IF k - 1 <= (n - 1) \div 2 THEN (k - 1) * rate ELSE (k - 1 - n) * rate

\* (freqs >= 0) & (freqs <= 300)
LowFreqMask(n, rate) ==
    { k \in 1..n : FreqTimesN(k, n, rate) >= 0
                   /\ FreqTimesN(k, n, rate) <= LOW_BAND_HZ * n }

\* the mid band taken from 300 Hz inclusive
MidFreqMask_Inclusive(n, rate) ==
    { k \in 1..n : FreqTimesN(k, n, rate) >= LOW_BAND_HZ * n
                   /\ FreqTimesN(k, n, rate) <= MID_BAND_HZ * n }

\* (freqs > 300) & (freqs <= 3000)
MidFreqMask(n, rate) ==
    { k \in 1..n : FreqTimesN(k, n, rate) > LOW_BAND_HZ * n
                   /\ FreqTimesN(k, n, rate) <= MID_BAND_HZ * n }

\* (freqs > 3000) & (freqs <= 8000)
HighFreqMask(n, rate) ==
    { k \in 1..n : FreqTimesN(k, n, rate) > MID_BAND_HZ * n
                   /\ FreqTimesN(k, n, rate) <= HIGH_BAND_HZ * n }

\* np.sum(magnitude[mask])
RECURSIVE MaskedSum(_, _)
MaskedSum(mag, mask) ==
    IF mask = {} THEN 0
    ELSE LET k == CHOOSE j \in mask : TRUE
         IN  mag[k] + MaskedSum(mag, mask \ { k })

\* the whole part of log10(num / den) for num >= den > 0; exact when the
\* quotient is a power of ten, as it is for the RMS values drawn
RECURSIVE Log10OfRatio(_, _)
Log10OfRatio(num, den) ==
    IF num < 10 * den THEN 0 ELSE 1 + Log10OfRatio(num \div 10, den)

\* dynamic range computed without the test on min_rms, where the division
\* by zero gives inf and float(inf) is stored: inf is carried as -1
DynamicRangeDb_NoZeroTest(max_rms, min_rms) ==
    IF min_rms = 0 THEN -1 ELSE DB_PER_DECADE * Log10OfRatio(max_rms, min_rms)

\* 20 * np.log10(max_rms / min_rms) if min_rms > 0 else 0
DynamicRangeDb(max_rms, min_rms) ==
    IF min_rms > 0 THEN DB_PER_DECADE * Log10OfRatio(max_rms, min_rms) ELSE 0

\* float(energy / total_energy) if total_energy > 0 else 0
EnergyRatio(energy, total) ==
    IF total > 0 THEN (energy * ONE) \div total ELSE 0

\* float(mid_energy / total_energy) if total_energy > 0 else 0.5
ClarityScore(mid, total) ==
    IF total > 0 THEN (mid * ONE) \div total ELSE ZERO_ENERGY_CLARITY

\* the whole method; a librosa or numpy call raising sends it to the
\* except branch
AnalyzeAudioQuality ==
    /\ q_pc = "ready"
    /\ \E raised \in BOOLEAN :
        /\ q_raised' = raised
        /\ IF raised
           THEN /\ audio_quality' = ErrorRecord
                /\ UNCHANGED << low_freq_mask, mid_freq_mask, high_freq_mask,
                                low_energy, mid_energy, high_energy, total_energy >>
           ELSE LET n == Len(magnitude)
                    max_rms == SeqMax(q_rms)
                    min_rms == SeqMin(q_rms)
                    low == MaskedSum(magnitude, LowFreqMask(n, q_sr))
                    mid == MaskedSum(magnitude, MidFreqMask(n, q_sr))
                    high == MaskedSum(magnitude, HighFreqMask(n, q_sr))
                    total == low + mid + high
                IN  /\ low_freq_mask' = LowFreqMask(n, q_sr)
                    /\ mid_freq_mask' = MidFreqMask(n, q_sr)
                    /\ high_freq_mask' = HighFreqMask(n, q_sr)
                    /\ low_energy' = low
                    /\ mid_energy' = mid
                    /\ high_energy' = high
                    /\ total_energy' = total
                    /\ audio_quality' =
                         [ rms_energy_avg |-> SeqMean(q_rms),
                           rms_energy_max |-> max_rms,
                           rms_energy_min |-> min_rms,
                           dynamic_range_db |-> DynamicRangeDb(max_rms, min_rms),
                           low_freq_energy_ratio |-> EnergyRatio(low, total),
                           mid_freq_energy_ratio |-> EnergyRatio(mid, total),
                           high_freq_energy_ratio |-> EnergyRatio(high, total),
                           clarity_score |-> ClarityScore(mid, total) ]
    /\ q_pc' = "done"
    /\ UNCHANGED << q_rms, magnitude, q_sr, audio_properties,
                    voice_characteristics, timing_analysis,
                    recommended_settings, map_pc, map_raised >>

\* framed RMS values drawn (silence, and levels 40 dB apart)
RmsFrameValues == { 0, 1, 100 }
RmsFrameLists == { r \in SeqsUpTo(RmsFrameValues, MaxRmsFrames) : Len(r) > 0 }

\* bin magnitudes drawn; the FFT of a real buffer has |X[n - k]| = |X[k]|
MagnitudeValues == { 0, 1, 3 }
Spectra ==
    { m \in SeqsUpTo(MagnitudeValues, MaxFftBins) :
        Len(m) > 0 /\ \A k \in 2..Len(m) : m[k] = m[Len(m) + 2 - k] }

\* sample rates drawn: with up to MaxFftBins bins they put bins on 300 Hz,
\* on 3000 Hz, on 8000 Hz and beyond it
QualitySampleRates == { 1500, 15000, 40000 }

\* step 5 of analyze(): the fields as __init__ left them
InitQuality ==
    /\ q_rms \in RmsFrameLists
    /\ magnitude \in Spectra
    /\ q_sr \in QualitySampleRates
    /\ low_freq_mask = {}
    /\ mid_freq_mask = {}
    /\ high_freq_mask = {}
    /\ low_energy = 0
    /\ mid_energy = 0
    /\ high_energy = 0
    /\ total_energy = 0
    /\ q_raised = FALSE
    /\ q_pc = "ready"
    /\ audio_properties = << >>
    /\ voice_characteristics = << >>
    /\ timing_analysis = << >>
    /\ audio_quality = << >>
    /\ recommended_settings = << >>
    /\ map_pc = "off"
    /\ map_raised = FALSE

QualOff ==
    /\ q_rms = << >>
    /\ magnitude = << >>
    /\ q_sr = 0
    /\ low_freq_mask = {}
    /\ mid_freq_mask = {}
    /\ high_freq_mask = {}
    /\ low_energy = 0
    /\ mid_energy = 0
    /\ high_energy = 0
    /\ total_energy = 0
    /\ q_raised = FALSE
    /\ q_pc = "off"

-----------------------------------------------------------------------------
(* The run: AudioAnalyzer.analyze().                                       *)
(*                                                                         *)
(* Each field of the analyzer is carried by the set of keys it holds: {}   *)
(* as __init__ leaves it, {"error"} after a stage's except branch,         *)
(* {"values"} after the stage's own assignment.  Which computations raise  *)
(* on the given file is the environment's choice, fixed for the run.       *)

VARIABLES
    run_pc,          \* the statement of analyze() to execute next
    run_fails,       \* the computations that raise on this input
    run_fields,      \* field name -> keys held
    run_outcome,     \* "running", "returned" or "raised"
    results          \* the keys of the record analyze() returned

runVars == << run_pc, run_fails, run_fields, run_outcome, results >>

\* the fields set in __init__
AnalyzerFields ==
    { "audio_properties", "voice_characteristics", "timing_analysis",
      "audio_quality", "recommended_settings", "pitch_analysis",
      "emotion_analysis" }

\* the computations of a run that can raise
RunComputations ==
    { "properties", "load", "voice", "timing", "quality", "onset_detect",
      "script_pitch", "dialogue_pitch", "emotion", "mapping" }

\* a stage whose body is one try block: the except branch stores
\* {"error": str(e)}, the body stores the stage's values
StageStores(computation, field) ==
    run_fields' = [ run_fields EXCEPT
                      ![field] = IF computation \in run_fails
                                 THEN { "error" } ELSE { "values" } ]

\* Step 1: self._extract_audio_properties()
RunExtractAudioProperties ==
    /\ run_pc = "step1"
    /\ StageStores("properties", "audio_properties")
    /\ run_pc' = "step2"
    /\ UNCHANGED << run_fails, run_outcome, results >>

\* Step 2: y, sr = self._load_audio(); the except branch raises RuntimeError
RunLoadAudio ==
    /\ run_pc = "step2"
    /\ IF "load" \in run_fails
       THEN /\ run_pc' = "done"
            /\ run_outcome' = "raised"
       ELSE /\ run_pc' = "step3"
            /\ UNCHANGED run_outcome
    /\ UNCHANGED << run_fails, run_fields, results >>

\* Step 3: self._analyze_voice_characteristics(y, sr)
RunAnalyzeVoiceCharacteristics ==
    /\ run_pc = "step3"
    /\ StageStores("voice", "voice_characteristics")
    /\ run_pc' = "step4"
    /\ UNCHANGED << run_fails, run_outcome, results >>

\* Step 4: self._analyze_timing_patterns(y, sr)
RunAnalyzeTimingPatterns ==
    /\ run_pc = "step4"
    /\ StageStores("timing", "timing_analysis")
    /\ run_pc' = "step5"
    /\ UNCHANGED << run_fails, run_outcome, results >>

\* Step 5: self._analyze_audio_quality(y, sr)
RunAnalyzeAudioQuality ==
    /\ run_pc = "step5"
    /\ StageStores("quality", "audio_quality")
    /\ run_pc' = "step6"
    /\ UNCHANGED << run_fails, run_outcome, results >>

\* Step 6: onsets = librosa.onset.onset_detect(y=y, sr=sr, units='time',
\* backtrack=True), a statement of analyze() itself, in no try block
RunOnsetDetect ==
    /\ run_pc = "step6"
    /\ IF "onset_detect" \in run_fails
       THEN /\ run_pc' = "done"
            /\ run_outcome' = "raised"
       ELSE /\ run_pc' = "step6_script"
            /\ UNCHANGED run_outcome
    /\ UNCHANGED << run_fails, run_fields, results >>

\* self._analyze_script_pitch_patterns(y, sr, onsets)
RunAnalyzeScriptPitchPatterns ==
    /\ run_pc = "step6_script"
    /\ StageStores("script_pitch", "pitch_analysis")
    /\ run_pc' = "step6_dialogue"
    /\ UNCHANGED << run_fails, run_outcome, results >>

\* self._analyze_dialogue_pitch_patterns(y, sr, onsets): every path of the
\* body and the except branch leave dialogue_patterns and per_dialogue in
\* pitch_analysis
RunAnalyzeDialoguePitchPatterns ==
    /\ run_pc = "step6_dialogue"
    /\ run_fields' = [ run_fields EXCEPT
                         !["pitch_analysis"] =
                             @ \cup { "dialogue_patterns", "per_dialogue" } ]
    /\ run_pc' = "step7"
    /\ UNCHANGED << run_fails, run_outcome, results >>

\* Step 7: self._analyze_emotions(y, sr, onsets)
RunAnalyzeEmotions ==
    /\ run_pc = "step7"
    /\ StageStores("emotion", "emotion_analysis")
    /\ run_pc' = "step8"
    /\ UNCHANGED << run_fails, run_outcome, results >>

\* Step 8: self._map_to_elevenlabs_settings(); its except branch stores the
\* default record
RunMapToElevenlabsSettings ==
    /\ run_pc = "step8"
    /\ run_fields' = [ run_fields EXCEPT
                         !["recommended_settings"] =
                             IF "mapping" \in run_fails
                             THEN { "default" } ELSE { "values" } ]
    /\ run_pc' = "compile"
    /\ UNCHANGED << run_fails, run_outcome, results >>

\* results = {...}; return results
RunReturnResults ==
    /\ run_pc = "compile"
    /\ results' = { "audio_properties", "voice_characteristics",
                    "timing_analysis", "audio_quality", "pitch_analysis",
                    "emotion_analysis", "recommended_elevenlabs_settings" }
    /\ run_outcome' = "returned"
    /\ run_pc' = "done"
    /\ UNCHANGED << run_fails, run_fields >>

\* the analyzer after __init__; step 4 makes the onset_detect call of step 6
\* on the same buffer, so where that call raises, step 4 raises as well
InitRun ==
    /\ run_pc = "step1"
    /\ run_fails \in { f \in SUBSET RunComputations :
                         "onset_detect" \in f => "timing" \in f }
    /\ run_fields = [ f \in AnalyzerFields |-> {} ]
    /\ run_outcome = "running"
    /\ results = {}

RunOff ==
    /\ run_pc = "off"
    /\ run_fails = {}
    /\ run_fields = << >>
    /\ run_outcome = "off"
    /\ results = {}

-----------------------------------------------------------------------------
(* Dialogue-level aggregation: the reduction that ends                     *)
(* AudioAnalyzer._analyze_dialogue_pitch_patterns.                         *)
(*                                                                         *)
(* The per-segment results are the entries appended to start_pitches,      *)
(* end_pitches and trajectories, in loop order (pitches in whole Hz).  The *)
(* reduction is run on that list and on a reordering of it.  The order in  *)
(* which Python iterates set(trajectories) depends on the strings' hashes, *)
(* which change from process to process: it is any order of the labels.    *)

VARIABLES
    agg_segments,       \* the per-segment results, in loop order
    agg_reordered,      \* the same results in another order
    dialogue_patterns,  \* pitch_analysis["dialogue_patterns"] from agg_segments
    reordered_patterns, \* pitch_analysis["dialogue_patterns"] from agg_reordered
    agg_pc              \* "ready", "first" (first reduction done), "both"

aggVars == << agg_segments, agg_reordered, dialogue_patterns,
              reordered_patterns, agg_pc >>

\* the most segments with a per-segment result
MaxSegments == 3

\* trajectories.count(label)
RECURSIVE CountOf(_, _)
CountOf(labels, label) ==
    IF labels = << >> THEN 0
    ELSE (IF Head(labels) = label THEN 1 ELSE 0) + CountOf(Tail(labels), label)

\* max(iterable, key=...): the first item, in iteration order, whose key no
\* later item exceeds and no earlier item reaches
RECURSIVE MaxByCount(_, _, _)
MaxByCount(iteration, labels, best) ==
    IF iteration = << >> THEN best
    ELSE IF CountOf(labels, Head(iteration)) > CountOf(labels, best)
         THEN MaxByCount(Tail(iteration), labels, Head(iteration))
         ELSE MaxByCount(Tail(iteration), labels, best)

\* the orders in which a set can be iterated
IterationOrders(S) ==
    { o \in [ 1..Cardinality(S) -> S ] : \A x \in S : \E k \in DOMAIN o : o[k] = x }

\* max(set(trajectories), key=trajectories.count) with the set iterated in
\* the order `iteration`
CommonTrajectory(labels, iteration) ==
    MaxByCount(Tail(iteration), labels, Head(iteration))

\* the dialogue_patterns record of a non-empty list of results
DialoguePatterns(segs, iteration) ==
    LET starts == [ k \in 1..Len(segs) |-> segs[k].start_pitch_hz ]
        ends == [ k \in 1..Len(segs) |-> segs[k].end_pitch_hz ]
        labels == [ k \in 1..Len(segs) |-> segs[k].trajectory ]
    IN  [ average_start_pitch_hz |-> SeqMean(starts),
          average_end_pitch_hz |-> SeqMean(ends),
          common_trajectory |-> CommonTrajectory(labels, iteration),
          pitch_variation_range |-> SeqMax(starts \o ends) - SeqMin(starts \o ends) ]

\* "# Calculate average patterns": the record, or {} when no segment has a
\* result
Aggregate(segs, iteration) ==
    IF segs # << >> THEN DialoguePatterns(segs, iteration) ELSE << >>

\* the labels held by set(trajectories)
LabelSet(segs) == { segs[k].trajectory : k \in 1..Len(segs) }

\* the reduction on the results in loop order
AggregateFirst ==
    /\ agg_pc = "ready"
    /\ \E iteration \in IterationOrders(LabelSet(agg_segments)) :
           dialogue_patterns' = Aggregate(agg_segments, iteration)
    /\ agg_pc' = "first"
    /\ UNCHANGED << agg_segments, agg_reordered, reordered_patterns >>

\* the reduction on the reordered results
AggregateReordered ==
    /\ agg_pc = "first"
    /\ \E iteration \in IterationOrders(LabelSet(agg_reordered)) :
           reordered_patterns' = Aggregate(agg_reordered, iteration)
    /\ agg_pc' = "both"
    /\ UNCHANGED << agg_segments, agg_reordered, dialogue_patterns >>

\* per-segment results drawn: only segments with positive start and end
\* pitch are appended
SegmentResults ==
    { [ trajectory |-> "rising", start_pitch_hz |-> 150, end_pitch_hz |-> 220 ],
      [ trajectory |-> "falling", start_pitch_hz |-> 220, end_pitch_hz |-> 150 ],
      [ trajectory |-> "stable", start_pitch_hz |-> 200, end_pitch_hz |-> 195 ],
      [ trajectory |-> "stable", start_pitch_hz |-> 151, end_pitch_hz |-> 150 ] }

\* s and t hold the same results, each as often
SameMultiset(s, t) ==
    /\ Len(s) = Len(t)
    /\ \A r \in SegmentResults :
           Cardinality({ k \in 1..Len(s) : s[k] = r })
               = Cardinality({ k \in 1..Len(t) : t[k] = r })

InitAgg ==
    /\ agg_segments \in SeqsUpTo(SegmentResults, MaxSegments)
    /\ agg_reordered \in SeqsUpTo(SegmentResults, MaxSegments)
    /\ SameMultiset(agg_segments, agg_reordered)
    /\ dialogue_patterns = << >>
    /\ reordered_patterns = << >>
    /\ agg_pc = "ready"

AggOff ==
    /\ agg_segments = << >>
    /\ agg_reordered = << >>
    /\ dialogue_patterns = << >>
    /\ reordered_patterns = << >>
    /\ agg_pc = "off"

-----------------------------------------------------------------------------
(* Voice characteristics: AudioAnalyzer._analyze_voice_characteristics.    *)
(*                                                                         *)
(* The buffer is carried by the pitch piptrack picks in each frame (whole  *)
(* Hz, 0 where nothing is picked), by the number of onsets and by the      *)
(* magnitudes of its FFT bins, as in the quality stage.  Positions in a    *)
(* formant window count from 0, as np.argmax does.                         *)

VARIABLES
    v_picked,        \* pitches[index, t] for each frame t
    v_onsets,        \* len(onsets)
    v_magnitude,     \* magnitude = np.abs(fft)
    v_sr,            \* the sr argument
    f1_idx,          \* f1_idx
    f2_idx,          \* f2_idx
    v_raised,        \* whether a call inside the try raised
    v_pc             \* "ready" before _analyze_voice_characteristics, "done" after

voiceVars == << v_picked, v_onsets, v_magnitude, v_sr, f1_idx, f2_idx,
                v_raised, v_pc >>

FORMANT_1_LOW_HZ == 500
FORMANT_1_HIGH_HZ == 800
FORMANT_2_LOW_HZ == 1000
FORMANT_2_HIGH_HZ == 2500
SECONDS_PER_MINUTE == 60
DEFAULT_DURATION == 10000

\* the bins (from 1, in array order) of freqs[(freqs >= lo) & (freqs <= hi)]
RECURSIVE RegionFrom(_, _, _, _, _)
RegionFrom(k, n, rate, lo, hi) ==
    IF k > n THEN << >>
    ELSE IF FreqTimesN(k, n, rate) >= lo * n /\ FreqTimesN(k, n, rate) <= hi * n
         THEN << k >> \o RegionFrom(k + 1, n, rate, lo, hi)
         ELSE RegionFrom(k + 1, n, rate, lo, hi)
FormantRegion(n, rate, lo, hi) == RegionFrom(1, n, rate, lo, hi)

\* np.argmax over magnitude[region]: the first position (from 0) holding the
\* greatest value
ArgMax(mag, region) ==
    CHOOSE p \in 0..(Len(region) - 1) :
        /\ \A q \in 0..(Len(region) - 1) : mag[region[q + 1]] <= mag[region[p + 1]]
        /\ \A q \in 0..(p - 1) : mag[region[q + 1]] < mag[region[p + 1]]

\* np.argmax(magnitude[region]) if np.any(region) else 0
FormantIdx(mag, region) == IF region # << >> THEN ArgMax(mag, region) ELSE 0

\* freqs[region][idx] if idx > 0 else 0, in whole Hz
FormantFreq(region, idx, n, rate) ==
    IF idx > 0 THEN FreqTimesN(region[idx + 1], n, rate) \div n ELSE 0

IsPicked(p) == p > 0

\* pitch_std / avg_pitch if avg_pitch > 0 else 0, and 0 without pitch values
PitchVariation(pitch_values) ==
    IF pitch_values # << >> /\ SumSeq(pitch_values) > 0
    THEN StdOverMean(pitch_values) ELSE 0

\* the expressiveness score without its cap
ExpressivenessScore_Uncapped(pitch_variation) == pitch_variation * 2

\* min(pitch_variation * 2, 1.0)
ExpressivenessScore(pitch_variation) == PyMin(pitch_variation * 2, ONE)

\* len(onsets) * 60 / duration if duration > 0 else 0, in whole words per
\* minute; duration is read from audio_properties
SpeechRateWpm(onset_count, properties) ==
    IF Get(properties, "duration", 0) > 0
    THEN (onset_count * SECONDS_PER_MINUTE * ONE)
             \div Get(properties, "duration", DEFAULT_DURATION)
    ELSE 0

\* the whole method; a librosa or numpy call raising sends it to the except
\* branch
AnalyzeVoiceCharacteristics ==
    /\ v_pc = "ready"
    /\ \E raised \in BOOLEAN :
        /\ v_raised' = raised
        /\ IF raised
           THEN /\ voice_characteristics' = ErrorRecord
                /\ UNCHANGED << f1_idx, f2_idx >>
           ELSE LET pitch_values == SelectSeq(v_picked, IsPicked)
                    n == Len(v_magnitude)
                    pitch_variation == PitchVariation(pitch_values)
                    formant_region_1 ==
                        FormantRegion(n, v_sr, FORMANT_1_LOW_HZ, FORMANT_1_HIGH_HZ)
                    formant_region_2 ==
                        FormantRegion(n, v_sr, FORMANT_2_LOW_HZ, FORMANT_2_HIGH_HZ)
                    idx1 == FormantIdx(v_magnitude, formant_region_1)
                    idx2 == FormantIdx(v_magnitude, formant_region_2)
                IN  /\ f1_idx' = idx1
                    /\ f2_idx' = idx2
                    /\ voice_characteristics' =
                         [ average_pitch_hz |->
                               IF pitch_values # << >> THEN SeqMean(pitch_values) ELSE 0,
                           pitch_std |->
                               IF pitch_values # << >>
                               THEN Isqrt(Len(pitch_values) * SumSquares(pitch_values)
                                          - SumSeq(pitch_values) * SumSeq(pitch_values))
                                        \div Len(pitch_values)
                               ELSE 0,
                           pitch_range |->
                               IF pitch_values # << >>
                               THEN SeqMax(pitch_values) - SeqMin(pitch_values) ELSE 0,
                           pitch_variation_coefficient |-> pitch_variation,
                           speech_rate_wpm |-> SpeechRateWpm(v_onsets, audio_properties),
                           formant_f1_hz |->
                               FormantFreq(formant_region_1, idx1, n, v_sr),
                           formant_f2_hz |->
                               FormantFreq(formant_region_2, idx2, n, v_sr),
                           expressiveness_score |->
                               ExpressivenessScore(pitch_variation) ]
    /\ v_pc' = "done"
    /\ UNCHANGED << v_picked, v_onsets, v_magnitude, v_sr, audio_properties,
                    timing_analysis, audio_quality, recommended_settings,
                    map_pc, map_raised >>

\* picked pitches drawn: none, and two pitches far enough apart for a
\* variation coefficient above 0.5
PickedValues == { 0, 100, 400 }
PickedLists == SeqsUpTo(PickedValues, MaxPitchFrames)

\* sample rates drawn: with up to MaxFftBins bins they put one bin or none in
\* the first formant window and none, one or two in the second
VoiceSampleRates == { 3000, 5000 }

\* step 1 left the properties or an error record
PropertiesRecords == { ErrorRecord, [ sample_rate |-> 22050, duration |-> 20000 ] }

\* step 3 of analyze()
InitVoice ==
    /\ v_picked \in PickedLists
    /\ v_onsets = 3
    /\ v_magnitude \in Spectra
    /\ v_sr \in VoiceSampleRates
    /\ f1_idx = 0
    /\ f2_idx = 0
    /\ v_raised = FALSE
    /\ v_pc = "ready"
    /\ audio_properties \in PropertiesRecords
    /\ voice_characteristics = << >>
    /\ timing_analysis = << >>
    /\ audio_quality = << >>
    /\ recommended_settings = << >>
    /\ map_pc = "off"
    /\ map_raised = FALSE

VoiceOff ==
    /\ v_picked = << >>
    /\ v_onsets = 0
    /\ v_magnitude = << >>
    /\ v_sr = 0
    /\ f1_idx = 0
    /\ f2_idx = 0
    /\ v_raised = FALSE
    /\ v_pc = "off"

-----------------------------------------------------------------------------
(* From the stages to the mapper: steps 3, 4, 5 and 8 of                   *)
(* AudioAnalyzer.analyze() on one buffer.  Steps 6 and 7 write             *)
(* pitch_analysis and emotion_analysis, which the mapper does not read.    *)

\* Step 3: self._analyze_voice_characteristics(y, sr)
Step3VoiceCharacteristics ==
    AnalyzeVoiceCharacteristics /\ UNCHANGED << timVars, qualVars >>

\* Step 4: self._analyze_timing_patterns(y, sr)
Step4TimingPatterns ==
    v_pc = "done" /\ AnalyzeTimingPatterns /\ UNCHANGED << voiceVars, qualVars >>

\* Step 5: self._analyze_audio_quality(y, sr)
Step5AudioQuality ==
    tim_pc = "done" /\ AnalyzeAudioQuality /\ UNCHANGED << voiceVars, timVars >>

\* Step 8: self._map_to_elevenlabs_settings()
Step8MapSettings ==
    q_pc = "done" /\ MapToElevenlabsSettings
        /\ UNCHANGED << voiceVars, timVars, qualVars >>

\* the sample rate of the buffers drawn and their spectra: five bins, at 0,
\* 3000 and 6000 Hz and their mirror images; no energy at all, all of it in
\* the mid band, none of it there, and three fifths of it there
PIPE_SAMPLE_RATE == 15000
PipeSpectra ==
    { << 0, 0, 0, 0, 0 >>, << 0, 3, 0, 0, 3 >>, << 1, 0, 3, 3, 0 >>,
      << 1, 3, 1, 1, 3 >> }

\* analyze() after step 2: one buffer, seen by each stage through what
\* librosa and numpy compute from it
InitPipe ==
    /\ audio_properties \in PropertiesRecords
    /\ voice_characteristics = << >>
    /\ timing_analysis = << >>
    /\ audio_quality = << >>
    /\ recommended_settings = << >>
    /\ map_pc = "ready"
    /\ map_raised = FALSE
    /\ v_picked \in PickedLists
    /\ v_onsets = 3
    /\ v_magnitude \in PipeSpectra
    /\ v_sr = PIPE_SAMPLE_RATE
    /\ f1_idx = 0
    /\ f2_idx = 0
    /\ v_raised = FALSE
    /\ v_pc = "ready"
    /\ tim_onsets = << 0, 2, 5 >>
    /\ tim_sr = PIPE_SAMPLE_RATE
    /\ silence_frames = << FALSE, TRUE, FALSE >>
    /\ major_onsets = 2
    /\ tim_raised = FALSE
    /\ tim_pc = "ready"
    /\ q_rms = << 1, 100 >>
    /\ magnitude = v_magnitude
    /\ q_sr = PIPE_SAMPLE_RATE
    /\ low_freq_mask = {}
    /\ mid_freq_mask = {}
    /\ high_freq_mask = {}
    /\ low_energy = 0
    /\ mid_energy = 0
    /\ high_energy = 0
    /\ total_energy = 0
    /\ q_raised = FALSE
    /\ q_pc = "ready"

-----------------------------------------------------------------------------
(* Audio assembly: generate_audio_version (test_audio_comparison.py).      *)
(*                                                                         *)
(* A dialogue of the script is carried by whether VOICE_IDS knows its      *)
(* speaker and whether its synthesis (the convert call, the temporary      *)
(* file, the mp3 decoding) raises.  audio_segments holds "segment" for a   *)
(* generated segment and "pause" for AudioSegment.silent(...).             *)

VARIABLES
    gen_script,      \* script
    gen_i,           \* the loop index i
    audio_segments,  \* audio_segments
    settings_used,   \* the dialogue_index of each entry of settings_used
    gen_pc,          \* "loop", "combine" or "done"
    gen_result       \* what the function returned: "none" yet, "saved" or "empty"

genVars == << gen_script, gen_i, audio_segments, settings_used, gen_pc,
              gen_result >>

\* the longest script assembled
MaxScriptLen == 3

\* the try block of the loop body when nothing raises: the segment, and the
\* pause unless i is the last index of the script
LoopBody(segments, i, length) ==
    IF i < length - 1
    THEN segments \o << "segment", "pause" >>
    ELSE Append(segments, "segment")

\* one iteration of the loop over enumerate(script)
GenerateDialogue ==
    /\ gen_pc = "loop"
    /\ gen_i < Len(gen_script)
    /\ LET dialogue == gen_script[gen_i + 1]
       IN  IF ~dialogue.known_speaker
           THEN UNCHANGED << audio_segments, settings_used >>
           ELSE /\ settings_used' = Append(settings_used, gen_i)
                /\ IF dialogue.synthesis_raises
                   THEN UNCHANGED audio_segments
                   ELSE audio_segments' =
                            LoopBody(audio_segments, gen_i, Len(gen_script))
    /\ gen_i' = gen_i + 1
    /\ UNCHANGED << gen_script, gen_pc, gen_result >>

\* the loop is exhausted
EndOfScript ==
    /\ gen_pc = "loop"
    /\ gen_i = Len(gen_script)
    /\ gen_pc' = "combine"
    /\ UNCHANGED << gen_script, gen_i, audio_segments, settings_used, gen_result >>

\* "# Combine all segments": the export, or {} without segments
CombineSegments ==
    /\ gen_pc = "combine"
    /\ gen_result' = IF audio_segments # << >> THEN "saved" ELSE "empty"
    /\ gen_pc' = "done"
    /\ UNCHANGED << gen_script, gen_i, audio_segments, settings_used >>

\* the dialogues drawn: an unknown speaker, a known speaker whose synthesis
\* raises, a known speaker whose synthesis succeeds
DialogueKinds ==
    { [ known_speaker |-> FALSE, synthesis_raises |-> FALSE ],
      [ known_speaker |-> TRUE, synthesis_raises |-> TRUE ],
      [ known_speaker |-> TRUE, synthesis_raises |-> FALSE ] }

InitGen ==
    /\ gen_script \in SeqsUpTo(DialogueKinds, MaxScriptLen)
    /\ gen_i = 0
    /\ audio_segments = << >>
    /\ settings_used = << >>
    /\ gen_pc = "loop"
    /\ gen_result = "none"

GenOff ==
    /\ gen_script = << >>
    /\ gen_i = 0
    /\ audio_segments = << >>
    /\ settings_used = << >>
    /\ gen_pc = "off"
    /\ gen_result = "none"

-----------------------------------------------------------------------------
(* Text cleaning: clean_wikipedia_text (tests/python/                      *)
(* test_wikipedia_extraction.py).                                          *)
(*                                                                         *)
(* A text is a sequence of pieces: a piece is a space, a newline, or a     *)
(* run of characters that the regular expressions of the function match    *)
(* or skip as a whole (a reference marker such as [1], a section heading,  *)
(* letters).  Pieces side by side without whitespace between them are one  *)
(* word for str.split().                                                   *)

VARIABLES
    wiki_text,       \* the argument text
    max_words,       \* the argument max_words
    wiki_result,     \* what the function returned
    wiki_pc          \* "call" or "done"

wikiVars == << wiki_text, max_words, wiki_result, wiki_pc >>

NEWLINE == "\n"

ELLIPSIS == "..."

\* the pieces \s matches, str.split() separates on and str.strip() removes
IsSpace(c) == c \in { " ", NEWLINE }

\* the pieces r'\[\d+\]' matches
IsReferenceMarker(c) == c \in { "[1]", "[23]" }

\* re.sub(r'\[\d+\]', '', text)
RemoveReferenceMarkers(t) == SelectSeq(t, LAMBDA c : ~IsReferenceMarker(c))

\* sections_to_remove, in the order of the list
SECTIONS_TO_REMOVE ==
    << "== See also ==", "== References ==", "== External links ==",
       "== Notes ==", "== Further reading ==" >>

\* re.sub(r'\n<heading>.*', '', text, flags=re.DOTALL): everything from the
\* first newline that the heading follows
RemoveSection(t, heading) ==
    LET starts == { k \in 1..(Len(t) - 1) :
                        t[k] = NEWLINE /\ t[k + 1] = heading }
    IN  IF starts = {} THEN t
        ELSE SubSeq(t, 1, (CHOOSE k \in starts : \A j \in starts : k <= j) - 1)

RECURSIVE RemoveSections(_, _)
\* for pattern in sections_to_remove: text = re.sub(pattern, '', text, ...)
RemoveSections(t, k) ==
    IF k > Len(SECTIONS_TO_REMOVE) THEN t
    ELSE RemoveSections(RemoveSection(t, SECTIONS_TO_REMOVE[k]), k + 1)

RECURSIVE KeepWhere(_, _, _)
\* the pieces of t at the positions of keep, in order, from position k on
KeepWhere(t, keep, k) ==
    IF k > Len(t) THEN << >>
    ELSE IF k \in keep THEN << t[k] >> \o KeepWhere(t, keep, k + 1)
    ELSE KeepWhere(t, keep, k + 1)

\* re.sub(r'\n{3,}', '\n\n', text): of a run of three or more newlines the
\* first two stay
CollapseNewlines(t) ==
    KeepWhere(t, { k \in 1..Len(t) :
                     ~(/\ k >= 3
                       /\ t[k] = NEWLINE
                       /\ t[k - 1] = NEWLINE
                       /\ t[k - 2] = NEWLINE) }, 1)

RECURSIVE Split(_)
\* text.split(): the maximal runs of pieces that are not whitespace
Split(t) ==
    IF t = << >> THEN << >>
    ELSE IF IsSpace(Head(t)) THEN Split(Tail(t))
    ELSE LET rest == Split(Tail(t))
         IN  IF Len(t) > 1 /\ ~IsSpace(t[2])
             THEN << << Head(t) >> \o Head(rest) >> \o Tail(rest)
             ELSE << << Head(t) >> >> \o rest

RECURSIVE Join(_)
\* ' '.join(words)
Join(words) ==
    IF words = << >> THEN << >>
    ELSE IF Len(words) = 1 THEN Head(words)
    ELSE Head(words) \o << " " >> \o Join(Tail(words))

RECURSIVE LStrip(_)
LStrip(t) ==
    IF t # << >> /\ IsSpace(Head(t)) THEN LStrip(Tail(t)) ELSE t

RECURSIVE RStrip(_)
RStrip(t) ==
    IF t # << >> /\ IsSpace(t[Len(t)])
    THEN RStrip(SubSeq(t, 1, Len(t) - 1)) ELSE t

\* text.strip()
Strip(t) == RStrip(LStrip(t))

\* "# Truncate to max words": ' '.join(words[:max_words]) + '...'
Truncate(t, limit) ==
    LET words == Split(t)
    IN  IF Len(words) > limit
        THEN Join(SubSeq(words, 1, limit)) \o << ELLIPSIS >>
        ELSE t

\* clean_wikipedia_text(text, max_words)
clean_wikipedia_text(t, limit) ==
    Strip(Truncate(CollapseNewlines(RemoveSections(RemoveReferenceMarkers(t), 1)),
                   limit))

\* the call
CleanWikipediaText ==
    /\ wiki_pc = "call"
    /\ wiki_result' = clean_wikipedia_text(wiki_text, max_words)
    /\ wiki_pc' = "done"
    /\ UNCHANGED << wiki_text, max_words >>

MaxTextLen == 4

MaxWords == 2

\* the pieces the texts are drawn from
WikiPieces == { "word", " ", NEWLINE, "[1]", "== Notes ==" }

InitWiki ==
    /\ wiki_text \in SeqsUpTo(WikiPieces, MaxTextLen)
    /\ max_words \in 0..MaxWords
    /\ wiki_result = << >>
    /\ wiki_pc = "call"

WikiOff ==
    /\ wiki_text = << >>
    /\ max_words = 0
    /\ wiki_result = << >>
    /\ wiki_pc = "off"

-----------------------------------------------------------------------------
(* Text cleaning for speech: preprocess_text_for_tts (tests/python/        *)
(* test_tts_synthesis.py, and the same function in                         *)
(* test_wikipedia_extraction.py) and clean_text_for_tts                    *)
(* (scripts/test_audio_comparison.py).                                     *)
(*                                                                         *)
(* A text is a sequence of pieces as above: a parenthesis, a space, or a   *)
(* run of letters.                                                         *)

VARIABLES
    tts_text,        \* the argument text
    tts_fn,          \* the function called
    tts_result,      \* what it returned
    tts_pc           \* "call" or "done"

ttsVars == << tts_text, tts_fn, tts_result, tts_pc >>

\* flags=re.IGNORECASE: a run of letters in lower case
IgnoreCase(c) ==
    CASE c = "EXCITED" -> "excited"
      [] c = "Laughs" -> "laughs"
      [] OTHER -> c

\* emotional_markers of preprocess_text_for_tts, in the order of the dict:
\* the words between the parentheses and the replacement
EMOTIONAL_MARKERS ==
    << [ words |-> { "laughs" }, replacement |-> << "...", " ", "haha", " ", "..." >> ],
       [ words |-> { "giggles" }, replacement |-> << "...", " ", "hehe", " ", "..." >> ],
       [ words |-> { "surprised" }, replacement |-> << "...", " ", "oh!", " ", "..." >> ],
       [ words |-> { "excited" }, replacement |-> << >> ],
       [ words |-> { "thinking" }, replacement |-> << "...", " ", "hmm", " ", "..." >> ],
       [ words |-> { "chuckles" }, replacement |-> << "...", " ", "heh", " ", "..." >> ] >>

\* emotion_markers of clean_text_for_tts: the last letter of each word is
\* optional (r'\(laughs?\)')
EMOTION_MARKERS ==
    << [ words |-> { "laugh", "laughs" }, replacement |-> << "haha" >> ],
       [ words |-> { "giggle", "giggles" }, replacement |-> << "hehe" >> ],
       [ words |-> { "chuckle", "chuckles" }, replacement |-> << "heh" >> ],
       [ words |-> { "surprise", "surprised" }, replacement |-> << "arey" >> ],
       [ words |-> { "excite", "excited" }, replacement |-> << >> ],
       [ words |-> { "thinkin", "thinking" }, replacement |-> << "hmm" >> ] >>

RECURSIVE ReplaceMarker(_, _)
\* re.sub(pattern, replacement, text, flags=re.IGNORECASE) for one marker
ReplaceMarker(t, marker) ==
    IF t = << >> THEN << >>
    ELSE IF /\ Len(t) >= 3
            /\ t[1] = "("
            /\ IgnoreCase(t[2]) \in marker.words
            /\ t[3] = ")"
    THEN marker.replacement \o ReplaceMarker(SubSeq(t, 4, Len(t)), marker)
    ELSE << Head(t) >> \o ReplaceMarker(Tail(t), marker)

RECURSIVE ReplaceMarkers(_, _, _)
\* for pattern, replacement in markers.items(): text = re.sub(...)
ReplaceMarkers(t, markers, k) ==
    IF k > Len(markers) THEN t
    ELSE ReplaceMarkers(ReplaceMarker(t, markers[k]), markers, k + 1)

RECURSIVE RemoveParentheticals_OneWord(_)
\* only a parenthesis pair around one run of letters goes: r'\(\w*\)'
RemoveParentheticals_OneWord(t) ==
    IF t = << >> THEN << >>
    ELSE IF /\ Len(t) >= 3
            /\ t[1] = "("
            /\ t[2] \notin { "(", ")", " ", NEWLINE }
            /\ t[3] = ")"
    THEN RemoveParentheticals_OneWord(SubSeq(t, 4, Len(t)))
    ELSE << Head(t) >> \o RemoveParentheticals_OneWord(Tail(t))

RECURSIVE RemoveParentheticals(_)
\* re.sub(r'\([^)]*\)', '', text): from an opening parenthesis to the first
\* closing one after it, when there is one
RemoveParentheticals(t) ==
    IF t = << >> THEN << >>
    ELSE LET closing == { k \in 2..Len(t) : t[k] = ")" }
         IN  IF Head(t) = "(" /\ closing # {}
             THEN RemoveParentheticals(
                      SubSeq(t, (CHOOSE k \in closing : \A j \in closing : k <= j) + 1,
                             Len(t)))
             ELSE << Head(t) >> \o RemoveParentheticals(Tail(t))

RECURSIVE CollapseWhitespace(_)
\* re.sub(r'\s+', ' ', text): a run of whitespace becomes one space
CollapseWhitespace(t) ==
    IF t = << >> THEN << >>
    ELSE IF IsSpace(Head(t))
    THEN << " " >> \o CollapseWhitespace(LStrip(t))
    ELSE << Head(t) >> \o CollapseWhitespace(Tail(t))

\* preprocess_text_for_tts(text)
preprocess_text_for_tts(t) ==
    Strip(CollapseWhitespace(RemoveParentheticals(
        ReplaceMarkers(t, EMOTIONAL_MARKERS, 1))))

\* clean_text_for_tts(text)
clean_text_for_tts(t) ==
    Strip(CollapseWhitespace(RemoveParentheticals(
        ReplaceMarkers(t, EMOTION_MARKERS, 1))))

\* a call of preprocess_text_for_tts
PreprocessTextForTts ==
    /\ tts_pc = "call"
    /\ tts_fn' = "preprocess_text_for_tts"
    /\ tts_result' = preprocess_text_for_tts(tts_text)
    /\ tts_pc' = "done"
    /\ UNCHANGED tts_text

\* a call of clean_text_for_tts
CleanTextForTts ==
    /\ tts_pc = "call"
    /\ tts_fn' = "clean_text_for_tts"
    /\ tts_result' = clean_text_for_tts(tts_text)
    /\ tts_pc' = "done"
    /\ UNCHANGED tts_text

\* the pieces the texts are drawn from
TtsPieces == { "(", ")", " ", "laughs", "EXCITED", "sighs" }

InitTts ==
    /\ tts_text \in SeqsUpTo(TtsPieces, MaxTextLen)
    /\ tts_fn = "none"
    /\ tts_result = << >>
    /\ tts_pc = "call"

TtsOff ==
    /\ tts_text = << >>
    /\ tts_fn = "none"
    /\ tts_result = << >>
    /\ tts_pc = "off"

-----------------------------------------------------------------------------
(* Specifications                                                          *)

vars == << mapVars, trajVars, dlgVars, emoVars, timVars, qualVars, runVars,
           aggVars, voiceVars, genVars, wikiVars, ttsVars >>

\* step 8 of analyze() on arbitrary stage records
NextMap == MapToElevenlabsSettings /\ UNCHANGED << trajVars, dlgVars, emoVars, timVars, qualVars, runVars, aggVars, voiceVars, genVars, wikiVars, ttsVars >>
InitSpecMap == InitMap /\ TrajOff /\ DlgOff /\ EmoOff /\ TimOff /\ QualOff /\ RunOff /\ AggOff /\ VoiceOff /\ GenOff /\ WikiOff /\ TtsOff
SpecMap == InitSpecMap /\ [][NextMap]_vars

\* _determine_pitch_trajectory on a contour and on its reversal
NextTraj ==
    \/ DetermineFirst /\ UNCHANGED << mapVars, dlgVars, emoVars, timVars, qualVars, runVars, aggVars, voiceVars, genVars, wikiVars, ttsVars >>
    \/ DetermineReversed /\ UNCHANGED << mapVars, dlgVars, emoVars, timVars, qualVars, runVars, aggVars, voiceVars, genVars, wikiVars, ttsVars >>
InitSpecTraj == InitTraj /\ MapOff /\ DlgOff /\ EmoOff /\ TimOff /\ QualOff /\ RunOff /\ AggOff /\ VoiceOff /\ GenOff /\ WikiOff /\ TtsOff
SpecTraj == InitSpecTraj /\ [][NextTraj]_vars

\* calls of the per-dialogue settings functions on one analysis file
NextDlg ==
    \/ GetDialogueSettingsVersionA /\ UNCHANGED << mapVars, trajVars, emoVars, timVars, qualVars, runVars, aggVars, voiceVars, genVars, wikiVars, ttsVars >>
    \/ GetDialogueSettingsVersionB /\ UNCHANGED << mapVars, trajVars, emoVars, timVars, qualVars, runVars, aggVars, voiceVars, genVars, wikiVars, ttsVars >>
    \/ ReturnSettings /\ UNCHANGED << mapVars, trajVars, emoVars, timVars, qualVars, runVars, aggVars, voiceVars, genVars, wikiVars, ttsVars >>
InitSpecDlg == InitDlg /\ MapOff /\ TrajOff /\ EmoOff /\ TimOff /\ QualOff /\ RunOff /\ AggOff /\ VoiceOff /\ GenOff /\ WikiOff /\ TtsOff
SpecDlg == InitSpecDlg /\ [][NextDlg]_vars

\* step 7 of analyze(): _analyze_emotions on the onsets of one recording
NextEmo ==
    \/ AnalyzeSegment /\ UNCHANGED << mapVars, trajVars, dlgVars, timVars, qualVars, runVars, aggVars, voiceVars, genVars, wikiVars, ttsVars >>
    \/ StoreEmotionAnalysis /\ UNCHANGED << mapVars, trajVars, dlgVars, timVars, qualVars, runVars, aggVars, voiceVars, genVars, wikiVars, ttsVars >>
InitSpecEmo == InitEmo /\ MapOff /\ TrajOff /\ DlgOff /\ TimOff /\ QualOff /\ RunOff /\ AggOff /\ VoiceOff /\ GenOff /\ WikiOff /\ TtsOff
SpecEmo == InitSpecEmo /\ [][NextEmo]_vars

\* _detect_laughter, _detect_excitement and the classification on one segment
NextScore ==
    \/ DetectLaughterCall /\ UNCHANGED << mapVars, trajVars, dlgVars, timVars, qualVars, runVars, aggVars, voiceVars, genVars, wikiVars, ttsVars >>
    \/ DetectExcitementCall /\ UNCHANGED << mapVars, trajVars, dlgVars, timVars, qualVars, runVars, aggVars, voiceVars, genVars, wikiVars, ttsVars >>
    \/ ClassifyCall /\ UNCHANGED << mapVars, trajVars, dlgVars, timVars, qualVars, runVars, aggVars, voiceVars, genVars, wikiVars, ttsVars >>
InitSpecScore == InitScore /\ MapOff /\ TrajOff /\ DlgOff /\ TimOff /\ QualOff /\ RunOff /\ AggOff /\ VoiceOff /\ GenOff /\ WikiOff /\ TtsOff
SpecScore == InitSpecScore /\ [][NextScore]_vars

\* step 4 of analyze(): _analyze_timing_patterns on the onsets of one recording
NextTiming == AnalyzeTimingPatterns /\ UNCHANGED << trajVars, dlgVars, emoVars, qualVars, runVars, aggVars, voiceVars, genVars, wikiVars, ttsVars >>
InitSpecTiming == InitTiming /\ TrajOff /\ DlgOff /\ EmoOff /\ QualOff /\ RunOff /\ AggOff /\ VoiceOff /\ GenOff /\ WikiOff /\ TtsOff
SpecTiming == InitSpecTiming /\ [][NextTiming]_vars

\* step 5 of analyze(): _analyze_audio_quality on one buffer
NextQuality == AnalyzeAudioQuality /\ UNCHANGED << trajVars, dlgVars, emoVars, timVars, runVars, aggVars, voiceVars, genVars, wikiVars, ttsVars >>
InitSpecQuality == InitQuality /\ TrajOff /\ DlgOff /\ EmoOff /\ TimOff /\ RunOff /\ AggOff /\ VoiceOff /\ GenOff /\ WikiOff /\ TtsOff
SpecQuality == InitSpecQuality /\ [][NextQuality]_vars

\* analyze() from its first statement to its return or its exception
NextRun ==
    \/ RunExtractAudioProperties /\ UNCHANGED << mapVars, trajVars, dlgVars, emoVars, timVars, qualVars, aggVars, voiceVars, genVars, wikiVars, ttsVars >>
    \/ RunLoadAudio /\ UNCHANGED << mapVars, trajVars, dlgVars, emoVars, timVars, qualVars, aggVars, voiceVars, genVars, wikiVars, ttsVars >>
    \/ RunAnalyzeVoiceCharacteristics /\ UNCHANGED << mapVars, trajVars, dlgVars, emoVars, timVars, qualVars, aggVars, voiceVars, genVars, wikiVars, ttsVars >>
    \/ RunAnalyzeTimingPatterns /\ UNCHANGED << mapVars, trajVars, dlgVars, emoVars, timVars, qualVars, aggVars, voiceVars, genVars, wikiVars, ttsVars >>
    \/ RunAnalyzeAudioQuality /\ UNCHANGED << mapVars, trajVars, dlgVars, emoVars, timVars, qualVars, aggVars, voiceVars, genVars, wikiVars, ttsVars >>
    \/ RunOnsetDetect /\ UNCHANGED << mapVars, trajVars, dlgVars, emoVars, timVars, qualVars, aggVars, voiceVars, genVars, wikiVars, ttsVars >>
    \/ RunAnalyzeScriptPitchPatterns /\ UNCHANGED << mapVars, trajVars, dlgVars, emoVars, timVars, qualVars, aggVars, voiceVars, genVars, wikiVars, ttsVars >>
    \/ RunAnalyzeDialoguePitchPatterns /\ UNCHANGED << mapVars, trajVars, dlgVars, emoVars, timVars, qualVars, aggVars, voiceVars, genVars, wikiVars, ttsVars >>
    \/ RunAnalyzeEmotions /\ UNCHANGED << mapVars, trajVars, dlgVars, emoVars, timVars, qualVars, aggVars, voiceVars, genVars, wikiVars, ttsVars >>
    \/ RunMapToElevenlabsSettings /\ UNCHANGED << mapVars, trajVars, dlgVars, emoVars, timVars, qualVars, aggVars, voiceVars, genVars, wikiVars, ttsVars >>
    \/ RunReturnResults /\ UNCHANGED << mapVars, trajVars, dlgVars, emoVars, timVars, qualVars, aggVars, voiceVars, genVars, wikiVars, ttsVars >>
InitSpecRun == InitRun /\ MapOff /\ TrajOff /\ DlgOff /\ EmoOff /\ TimOff /\ QualOff /\ AggOff /\ VoiceOff /\ GenOff /\ WikiOff /\ TtsOff
SpecRun == InitSpecRun /\ [][NextRun]_vars

\* the reduction of _analyze_dialogue_pitch_patterns on a list of results and on a reordering of it
NextAgg ==
    \/ AggregateFirst /\ UNCHANGED << mapVars, trajVars, dlgVars, emoVars, timVars, qualVars, runVars, voiceVars, genVars, wikiVars, ttsVars >>
    \/ AggregateReordered /\ UNCHANGED << mapVars, trajVars, dlgVars, emoVars, timVars, qualVars, runVars, voiceVars, genVars, wikiVars, ttsVars >>
InitSpecAgg == InitAgg /\ MapOff /\ TrajOff /\ DlgOff /\ EmoOff /\ TimOff /\ QualOff /\ RunOff /\ VoiceOff /\ GenOff /\ WikiOff /\ TtsOff
SpecAgg == InitSpecAgg /\ [][NextAgg]_vars

\* step 3 of analyze(): _analyze_voice_characteristics on one buffer
NextVoice == AnalyzeVoiceCharacteristics /\ UNCHANGED << trajVars, dlgVars, emoVars, timVars, qualVars, runVars, aggVars, genVars, wikiVars, ttsVars >>
InitSpecVoice == InitVoice /\ TrajOff /\ DlgOff /\ EmoOff /\ TimOff /\ QualOff /\ RunOff /\ AggOff /\ GenOff /\ WikiOff /\ TtsOff
SpecVoice == InitSpecVoice /\ [][NextVoice]_vars

\* steps 3, 4, 5 and 8 of analyze() on one buffer
NextPipe ==
    \/ Step3VoiceCharacteristics /\ UNCHANGED << trajVars, dlgVars, emoVars, runVars, aggVars, genVars, wikiVars, ttsVars >>
    \/ Step4TimingPatterns /\ UNCHANGED << trajVars, dlgVars, emoVars, runVars, aggVars, genVars, wikiVars, ttsVars >>
    \/ Step5AudioQuality /\ UNCHANGED << trajVars, dlgVars, emoVars, runVars, aggVars, genVars, wikiVars, ttsVars >>
    \/ Step8MapSettings /\ UNCHANGED << trajVars, dlgVars, emoVars, runVars, aggVars, genVars, wikiVars, ttsVars >>
InitSpecPipe == InitPipe /\ TrajOff /\ DlgOff /\ EmoOff /\ RunOff /\ AggOff /\ GenOff /\ WikiOff /\ TtsOff
SpecPipe == InitSpecPipe /\ [][NextPipe]_vars

\* generate_audio_version on one script
NextGen ==
    \/ GenerateDialogue /\ UNCHANGED << mapVars, trajVars, dlgVars, emoVars, timVars, qualVars, runVars, aggVars, voiceVars, wikiVars, ttsVars >>
    \/ EndOfScript /\ UNCHANGED << mapVars, trajVars, dlgVars, emoVars, timVars, qualVars, runVars, aggVars, voiceVars, wikiVars, ttsVars >>
    \/ CombineSegments /\ UNCHANGED << mapVars, trajVars, dlgVars, emoVars, timVars, qualVars, runVars, aggVars, voiceVars, wikiVars, ttsVars >>
InitSpecGen == InitGen /\ MapOff /\ TrajOff /\ DlgOff /\ EmoOff /\ TimOff /\ QualOff /\ RunOff /\ AggOff /\ VoiceOff /\ WikiOff /\ TtsOff
SpecGen == InitSpecGen /\ [][NextGen]_vars

\* clean_wikipedia_text on one text
NextWiki == CleanWikipediaText /\ UNCHANGED << mapVars, trajVars, dlgVars, emoVars, timVars, qualVars, runVars, aggVars, voiceVars, genVars, ttsVars >>
InitSpecWiki == InitWiki /\ MapOff /\ TrajOff /\ DlgOff /\ EmoOff /\ TimOff /\ QualOff /\ RunOff /\ AggOff /\ VoiceOff /\ GenOff /\ TtsOff
SpecWiki == InitSpecWiki /\ [][NextWiki]_vars

\* the two text cleaning functions for speech on one text
NextTts ==
    \/ PreprocessTextForTts /\ UNCHANGED << mapVars, trajVars, dlgVars, emoVars, timVars, qualVars, runVars, aggVars, voiceVars, genVars, wikiVars >>
    \/ CleanTextForTts /\ UNCHANGED << mapVars, trajVars, dlgVars, emoVars, timVars, qualVars, runVars, aggVars, voiceVars, genVars, wikiVars >>
InitSpecTts == InitTts /\ MapOff /\ TrajOff /\ DlgOff /\ EmoOff /\ TimOff /\ QualOff /\ RunOff /\ AggOff /\ VoiceOff /\ GenOff /\ WikiOff
SpecTts == InitSpecTts /\ [][NextTts]_vars

-----------------------------------------------------------------------------
(* Properties                                                              *)

\* clamp(lo, hi, x) as the specification writes it
Clamp(lo, hi, x) == IF x < lo THEN lo ELSE IF x > hi THEN hi ELSE x

\* the features the mapper reads, with the defaults it substitutes
RefPitchVar == Get(voice_characteristics, "pitch_variation_coefficient", 3000)
RefExpressiveness == Get(voice_characteristics, "expressiveness_score", 5000)
RefClarity == Get(audio_quality, "clarity_score", 7000)
RefPause == Get(timing_analysis, "average_pause_duration_seconds", 3000)
RefStability == Clamp(1000, 9000, 6000 - (5 * RefPitchVar) \div 10)
RefSimilarity ==
    Clamp(3000, 9000, 5000 + (3 * RefClarity) \div 10 - (2 * RefExpressiveness) \div 10)
RefStyle == Clamp(1000, 9000, 3000 + (4 * RefExpressiveness) \div 10)

\* C1: whatever the features are (negative, huge, or missing because a stage
\* left an error record), the record the mapper produces has stability in
\* [0.1, 0.9], similarity_boost in [0.3, 0.9] and style in [0.1, 0.9].
C1_MapperBounds ==
    map_pc = "mapped" =>
        /\ recommended_settings.stability >= 1000
        /\ recommended_settings.stability <= 9000
        /\ recommended_settings.similarity_boost >= 3000
        /\ recommended_settings.similarity_boost <= 9000
        /\ recommended_settings.style >= 1000
        /\ recommended_settings.style <= 9000

\* C1 witness: the voice stage left an error record, clarity is huge, and the
\* mapper ran: similarity_boost is held at the upper limit.
C1_Witness ==
    /\ map_pc = "mapped"
    /\ ~map_raised
    /\ voice_characteristics = ErrorRecord
    /\ "clarity_score" \in DOMAIN audio_quality
    /\ audio_quality.clarity_score = 5000000
    /\ recommended_settings.similarity_boost = 9000

\* C4 as claimed: the produced record carries exactly the clamped reference
\* values and the timing stage's average pause.
C4_ExactReference ==
    ( /\ map_pc = "mapped"
      /\ ~map_raised
      /\ "pitch_variation_coefficient" \in DOMAIN voice_characteristics
      /\ "clarity_score" \in DOMAIN audio_quality
      /\ "average_pause_duration_seconds" \in DOMAIN timing_analysis )
    => /\ recommended_settings.stability = RefStability
       /\ recommended_settings.similarity_boost = RefSimilarity
       /\ recommended_settings.style = RefStyle
       /\ recommended_settings.use_speaker_boost = (RefClarity > 6000)
       /\ recommended_settings.pause_duration_seconds = RefPause

\* C4 amended: when the try block completes, every numeric field is the
\* reference value rounded to two decimals (a missing feature read as its
\* default), use_speaker_boost is clarity > 0.6; when it raises, the record
\* is the fixed default record.
C4_RoundedReference ==
    map_pc = "mapped" =>
        IF map_raised
        THEN recommended_settings = MapperDefaultSettings
        ELSE /\ recommended_settings.stability \in Round2(RefStability)
             /\ recommended_settings.similarity_boost \in Round2(RefSimilarity)
             /\ recommended_settings.style \in Round2(RefStyle)
             /\ recommended_settings.use_speaker_boost = (RefClarity > 6000)
             /\ recommended_settings.pause_duration_seconds \in Round2(RefPause)

\* C4 witness: pitch variation 0.123 maps to 0.5385, recorded as 0.54, with a
\* pause of 0.1234 recorded as 0.12.
C4_Witness ==
    /\ map_pc = "mapped"
    /\ ~map_raised
    /\ "pitch_variation_coefficient" \in DOMAIN voice_characteristics
    /\ voice_characteristics.pitch_variation_coefficient = 1230
    /\ recommended_settings.stability = 5400
    /\ "average_pause_duration_seconds" \in DOMAIN timing_analysis
    /\ timing_analysis.average_pause_duration_seconds = 1234
    /\ recommended_settings.pause_duration_seconds = 1200

\* the sums over the first and the last third (thirds of size len // 3) of
\* the contour under classification
FirstThirdSum == SumSeq(SubSeq(pitch_contour, 1, Len(pitch_contour) \div 3))
LastThirdSum ==
    SumSeq(SubSeq(pitch_contour,
                  Len(pitch_contour) - (Len(pitch_contour) \div 3) + 1,
                  Len(pitch_contour)))

\* C5: a contour is "stable" if it has fewer than 3 samples or if the mean of
\* its first or last third is 0; otherwise, with
\* change = (end_mean - start_mean) / start_mean, it is "rising" iff
\* change > 0.10, "falling" iff change < -0.10 and "stable" otherwise, a
\* change of exactly +/-0.10 included.
C5_TrajectoryLabel ==
    traj_pc \in {"second", "done"} =>
        IF Len(pitch_contour) < 3 \/ FirstThirdSum = 0 \/ LastThirdSum = 0
        THEN trajectory = "stable"
        ELSE /\ trajectory = "rising" <=>
                    10 * (LastThirdSum - FirstThirdSum) > FirstThirdSum
             /\ trajectory = "falling" <=>
                    10 * (LastThirdSum - FirstThirdSum) < - FirstThirdSum
             /\ trajectory = "stable" <=>
                    /\ 10 * (LastThirdSum - FirstThirdSum) <= FirstThirdSum
                    /\ 10 * (LastThirdSum - FirstThirdSum) >= - FirstThirdSum

\* C5 witness: a rise of exactly 10% (100 Hz to 110 Hz) is labelled stable.
C5_Witness ==
    /\ traj_pc = "done"
    /\ pitch_contour = << 100, 90, 110 >>
    /\ trajectory = "stable"

\* whether every sample of the contour has the same value
ConstantContour ==
    \A i, j \in 1..Len(pitch_contour) : pitch_contour[i] = pitch_contour[j]

\* C6 as claimed: a rising contour reversed in time is falling, a falling
\* contour reversed is rising, and a constant contour is stable.
C6_Symmetric ==
    traj_pc = "done" =>
        /\ trajectory = "rising" => reversed_trajectory = "falling"
        /\ trajectory = "falling" => reversed_trajectory = "rising"
        /\ ConstantContour => trajectory = "stable"

\* C6 amended: a falling contour reversed in time is rising; a rising contour
\* reversed is falling when its rise exceeds 1/9 of the first-third mean
\* (9 * end_mean > 10 * start_mean) and stable otherwise; a constant contour
\* is stable.
C6_HalfSymmetric ==
    traj_pc = "done" =>
        /\ trajectory = "falling" => reversed_trajectory = "rising"
        /\ trajectory = "rising" =>
              reversed_trajectory =
                  IF 9 * LastThirdSum > 10 * FirstThirdSum THEN "falling" ELSE "stable"
        /\ ConstantContour => trajectory = "stable"

\* C6 witness: 90 Hz to 100 Hz is a rise of 11.1% (rising); reversed, 100 Hz
\* to 90 Hz is a fall of exactly 10% (stable).
C6_Witness ==
    /\ traj_pc = "done"
    /\ pitch_contour = << 90, 100, 100 >>
    /\ trajectory = "rising"
    /\ reversed_trajectory = "stable"

\* the base record of a call of version B and its style and stability
BaseOfConfig == Get(analysis_config, "recommended_elevenlabs_settings", DEFAULT_SETTINGS)
BaseStyle == Get(BaseOfConfig, "style", 5500)
BaseStability == Get(BaseOfConfig, "stability", 3500)
ConfigEmotionSegments ==
    Get(Get(analysis_config, "emotion_analysis", << >>), "emotion_segments", << >>)

\* a field of the returned dictionary is present and within [lo, hi]
ReturnedWithin(field, lo, hi) ==
    /\ field \in DOMAIN settings
    /\ settings[field] >= lo /\ settings[field] <= hi


\* C2: the record returned by get_dialogue_settings_version_b has stability
\* in [0.1, 0.9], style in [0.1, 0.9] and similarity_boost in [0.3, 0.9],
\* whichever adjustments fired.
C2_ReturnedBounds ==
    (dlg_pc = "returned" /\ version = "B") =>
        /\ ReturnedWithin("stability", 1000, 9000)
        /\ ReturnedWithin("style", 1000, 9000)
        /\ ReturnedWithin("similarity_boost", 3000, 9000)

\* C2 witness: a base record outside the limits (style 1.2, stability -0.5);
\* the opening and closing rules fired, then a laughter segment of intensity
\* -10 stored stability 1.3 and style -0.3, and the call returned 0.9 and 0.1.
C2_Witness ==
    /\ dlg_pc = "returned" /\ version = "B"
    /\ BaseStyle = 12000 /\ BaseStability = -5000
    /\ \E a \in assigned : a.rule = "opening"
    /\ \E a \in assigned : a.rule = "closing"
    /\ [ rule |-> "audio_emotion", field |-> "stability", value |-> 13000 ] \in assigned
    /\ [ rule |-> "audio_emotion", field |-> "style", value |-> -3000 ] \in assigned
    /\ settings.stability = 9000
    /\ settings.style = 1000

-----------------------------------------------------------------------------
(* Emotion analysis properties                                             *)

EmotionLabels == { "laughter", "excitement", "neutral" }

InEmotionLoop == emo_pc \in { "loop", "done" }

\* the first and one-past-last sample of segment k (counted from 1)
SegmentStartOf(k) == (onsets[k] * sr) \div 10
SegmentEndOf(k) ==
    IF k < Len(onsets) THEN (onsets[k + 1] * sr) \div 10 ELSE y_len

\* how many of the segments processed so far were non-empty
NonEmptySegmentsProcessed ==
    Cardinality({ k \in 1..seg_i : SegmentEndOf(k) > SegmentStartOf(k) })

CountsTotal ==
    emotion_counts.laughter + emotion_counts.excitement + emotion_counts.neutral

\* the last iteration ran on a non-empty segment
LastSegmentNonEmpty == seg_i > 0 /\ segment_end > segment_start

C7_CountsMatch == InEmotionLoop => CountsTotal = NonEmptySegmentsProcessed

C7_LabelOfLast ==
    (InEmotionLoop /\ LastSegmentNonEmpty) =>
        /\ emotion_type \in EmotionLabels
        /\ (laughter_score > 6000) => emotion_type = "laughter"
        /\ (laughter_score <= 6000 /\ excitement_score > 5000)
               => emotion_type = "excitement"
        /\ (laughter_score <= 6000 /\ excitement_score <= 5000)
               => emotion_type = "neutral"

C7_Iteration ==
    (seg_i' = seg_i + 1) =>
        IF segment_end' > segment_start'
        THEN \E l \in EmotionLabels :
                /\ emotion_type' = l
                /\ emotion_counts' = [ emotion_counts EXCEPT ![l] = @ + 1 ]
        ELSE emotion_counts' = emotion_counts

\* C7: every iteration of _analyze_emotions on a non-empty segment gives the
\* segment one label of laughter, excitement, neutral and adds one to that
\* label's counter and to no other, an empty segment changes no counter, the
\* three counters sum to the number of non-empty segments processed, and a
\* laughter score above 0.6 gives the label laughter whatever the
\* excitement score.
C7_OneLabelPerSegment ==
    [](C7_CountsMatch /\ C7_LabelOfLast) /\ [][C7_Iteration]_vars

\* C7 witness: a segment scoring above 0.6 for laughter and above 0.5 for
\* excitement was counted as laughter and not as excitement.
C7_Witness ==
    /\ InEmotionLoop /\ LastSegmentNonEmpty
    /\ laughter_score > 6000 /\ excitement_score > 5000
    /\ emotion_type = "laughter"
    /\ emotion_counts.laughter = 1 /\ emotion_counts.excitement = 0
    /\ CountsTotal = 2

\* C8: emotion_segments holds exactly the segments labeled laughter or
\* excitement: its length is the laughter count plus the excitement count,
\* every entry has intensity in (0.4, 1.0], the entries are in increasing
\* segment index, the segment just processed was appended iff its intensity
\* exceeds 0.4, and a neutral segment has intensity 0.3 and is not appended.
C8_RetainedSegments ==
    InEmotionLoop =>
        /\ Len(emotion_segments) = emotion_counts.laughter + emotion_counts.excitement
        /\ \A k \in 1..Len(emotion_segments) :
              /\ emotion_segments[k].emotion_type \in { "laughter", "excitement" }
              /\ emotion_segments[k].intensity > 4000
              /\ emotion_segments[k].intensity <= 10000
        /\ \A k \in 1..(Len(emotion_segments) - 1) :
              emotion_segments[k].index < emotion_segments[k + 1].index
        /\ LastSegmentNonEmpty =>
              /\ (intensity > 4000) <=>
                    /\ Len(emotion_segments) > 0
                    /\ emotion_segments[Len(emotion_segments)].index = seg_i - 1
              /\ (emotion_type = "neutral") => intensity = 3000
        /\ (emo_pc = "done") =>
              emotion_analysis.emotion_segments = emotion_segments

\* C8 witness: a finished run over three non-empty segments, the first
\* laughter, the second neutral, the third excitement: two entries, with
\* indices 0 and 2.
C8_Witness ==
    /\ emo_pc = "done"
    /\ emotion_counts = [ laughter |-> 1, excitement |-> 1, neutral |-> 1 ]
    /\ Len(emotion_segments) = 2
    /\ emotion_segments[1].index = 0 /\ emotion_segments[1].emotion_type = "laughter"
    /\ emotion_segments[2].index = 2 /\ emotion_segments[2].emotion_type = "excitement"

\* C9: when the segment's pitch contour has fewer than 3 samples or mean 0,
\* _detect_laughter returns 0 whatever the spectral centroid, and the
\* segment is not labeled laughter.
C9_ShortContourNoLaughter ==
    (Len(segment_contour) < 3 \/ SumSeq(segment_contour) = 0) =>
        /\ (emo_pc \in { "laughter_scored", "excitement_scored", "classified" })
               => laughter_score = 0
        /\ (emo_pc = "classified") => emotion_type # "laughter"

\* C9 witness: a segment without a voiced frame (contour [0.0]) and with a
\* spectral centroid of 8000 Hz was scored 0 and classified.
C9_Witness ==
    /\ emo_pc = "classified"
    /\ segment_contour = << 0 >>
    /\ segment_y.spectral_centroid = 8000
    /\ laughter_score = 0
    /\ emotion_type # "laughter"

\* the largest absolute difference of consecutive samples
LargestJump(c) ==
    LET jumps == { IF c[k + 1] >= c[k] THEN c[k + 1] - c[k] ELSE c[k] - c[k + 1] :
                     k \in 1..(Len(c) - 1) }
    IN  CHOOSE d \in jumps : \A other \in jumps : other <= d

LeastOf(a, b) == IF a <= b THEN a ELSE b

\* C10: _detect_excitement returns min(1, 0.3 * pitch_score + 0.4 *
\* energy_score + 0.3 * spike_score) with pitch_score 0 for a mean pitch of
\* at most 150 Hz and min(1, (mean - 150) / 100) above, energy_score
\* min(1, 10 * mean RMS), spike_score min(1, largest jump / 50) on more than
\* 2 samples and 0 otherwise; the sub-scores and the total are in [0, 1].
C10_ExcitementFormula ==
    (emo_pc \in { "excitement_scored", "classified" }) =>
        LET n == Len(segment_contour)
            total == SumSeq(segment_contour)
        IN  /\ pitch_score =
                 IF total <= 150 * n THEN 0
                 ELSE LeastOf(10000, (100 * (total - 150 * n)) \div n)
            /\ energy_score = LeastOf(10000, 10 * segment_y.rms_mean)
            /\ spike_score =
                 IF n > 2 THEN LeastOf(10000, 200 * LargestJump(segment_contour))
                 ELSE 0
            /\ excitement_score =
                 LeastOf(10000, (3 * pitch_score + 4 * energy_score + 3 * spike_score) \div 10)
            /\ \A x \in { pitch_score, energy_score, spike_score, excitement_score } :
                 x >= 0 /\ x <= 10000

\* C10 witness: the contour 160, 140, 160 Hz (mean 153.33 Hz, jumps of 20 Hz)
\* with mean RMS 0.03: sub-scores 0.0333, 0.3 and 0.4, total 0.2499.
C10_Witness ==
    /\ emo_pc = "excitement_scored"
    /\ segment_contour = << 160, 140, 160 >>
    /\ segment_y.rms_mean = 300
    /\ pitch_score = 333 /\ energy_score = 3000 /\ spike_score = 4000
    /\ excitement_score = 2499

-----------------------------------------------------------------------------
(* Mapper failure                                                          *)

\* C18: when the try block of _map_to_elevenlabs_settings raises,
\* recommended_settings is exactly the default record (stability 0.35,
\* similarity_boost 0.75, style 0.55, speaker boost on, pause 0.3 s,
\* mp3_44100_128, eleven_multilingual_v2), and after step 8
\* recommended_settings always carries all seven fields.
C18_DefaultOnFailure ==
    (map_pc = "mapped") =>
        /\ DOMAIN recommended_settings =
              { "stability", "similarity_boost", "style", "use_speaker_boost",
                "output_format", "model_id", "pause_duration_seconds" }
        /\ map_raised =>
              /\ recommended_settings.stability = 3500
              /\ recommended_settings.similarity_boost = 7500
              /\ recommended_settings.style = 5500
              /\ recommended_settings.use_speaker_boost = TRUE
              /\ recommended_settings.pause_duration_seconds = 3000
              /\ recommended_settings.output_format = "mp3_44100_128"
              /\ recommended_settings.model_id = "eleven_multilingual_v2"

\* C18 witness: the try block raised on features that would otherwise have
\* mapped to stability 0.1 with the 22050 Hz format, and the default record
\* was stored.
C18_Witness ==
    /\ map_pc = "mapped" /\ map_raised
    /\ "pitch_variation_coefficient" \in DOMAIN voice_characteristics
    /\ voice_characteristics.pitch_variation_coefficient = 12000
    /\ "sample_rate" \in DOMAIN audio_properties
    /\ audio_properties.sample_rate = 22050
    /\ recommended_settings.stability = 3500
    /\ recommended_settings.output_format = "mp3_44100_128"

-----------------------------------------------------------------------------
(* Pitch contour extraction                                                *)

\* the members of a sequence that are not x, in order
RECURSIVE Without(_, _)
Without(s, x) ==
    IF s = << >> THEN << >>
    ELSE IF Head(s) = x THEN Without(Tail(s), x)
    ELSE << Head(s) >> \o Without(Tail(s), x)

ContourExtracted == emo_pc \in { "laughter_scored", "excitement_scored", "classified" }

\* C16: _extract_pitch_contour returns the voiced values of pyin when pyin
\* is available, does not raise and has a voiced frame; otherwise the
\* positive per-frame peaks of piptrack when there is one; otherwise [0].
\* The contour is never empty, and is all-positive or exactly [0].
C16_ContourNeverEmpty ==
    ContourExtracted =>
        LET voiced == Without(segment_y.pyin, NaN)
            peaks == Without(segment_y.piptrack, 0)
        IN  /\ Len(segment_contour) > 0
            /\ segment_contour =
                 IF ~segment_y.pyin_failed /\ voiced # << >> THEN voiced
                 ELSE IF ~segment_y.piptrack_failed /\ peaks # << >> THEN peaks
                 ELSE << 0 >>
            /\ \/ \A k \in 1..Len(segment_contour) : segment_contour[k] > 0
               \/ segment_contour = << 0 >>

\* C16 witness: pyin returned only unvoiced frames and piptrack found no
\* peak in any frame; the contour is [0].
C16_Witness ==
    /\ emo_pc = "laughter_scored"
    /\ ~segment_y.pyin_failed /\ segment_y.pyin = << NaN, NaN >>
    /\ ~segment_y.piptrack_failed /\ segment_y.piptrack = << 0, 0 >>
    /\ segment_contour = << 0 >>

-----------------------------------------------------------------------------
(* Emotion overrides and the pitch-difference rule                         *)

ReturnedFromB == dlg_pc = "returned" /\ version = "B"

\* the text carries a laughter marker, or an excitement marker
TextHasLaughter ==
    \E k \in 1..Len(text) :
        text[k] \in { "(LAUGHS)", "(laughs)", "(laugh)", "(giggles)", "(giggle)",
                      "(chuckles)", "(chuckle)" }
TextHasExcitement ==
    \E k \in 1..Len(text) :
        text[k] \in { "(Excited)", "(excited)", "(excite)", "(surprised)", "(surprise)" }

\* the positions of the audio emotion segments that apply to the dialogue
ApplicableSegments ==
    { k \in 1..Len(ConfigEmotionSegments) :
        /\ "index" \in DOMAIN ConfigEmotionSegments[k]
        /\ ConfigEmotionSegments[k].index = dialogue_index
        /\ "emotion_type" \in DOMAIN ConfigEmotionSegments[k]
        /\ ConfigEmotionSegments[k].emotion_type \in { "laughter", "excitement" } }

EmotionApplies == TextHasLaughter \/ TextHasExcitement \/ ApplicableSegments # {}

Within(lo, hi, x) == IF x < lo THEN lo ELSE IF x > hi THEN hi ELSE x

\* stability and style as the emotion alone decides them: the last applicable
\* audio segment, otherwise the text marker (laughter before excitement)
EmotionOnlySettings ==
    IF ApplicableSegments # {}
    THEN LET last == CHOOSE k \in ApplicableSegments : \A j \in ApplicableSegments : j <= k
             seg == ConfigEmotionSegments[last]
             x == IF "intensity" \in DOMAIN seg THEN seg.intensity ELSE 5000
             tenth == x \div 10
         IN  IF seg.emotion_type = "laughter"
             THEN [ stability |-> Within(1000, 9000, 3000 - tenth),
                    style |-> Within(1000, 9000, 7000 + tenth) ]
             ELSE [ stability |-> Within(1000, 9000, 4000 - tenth),
                    style |-> Within(1000, 9000, 6000 + tenth) ]
    ELSE IF TextHasLaughter THEN [ stability |-> 2500, style |-> 7500 ]
    ELSE [ stability |-> 3500, style |-> 6500 ]

\* C19: when a laughter or excitement emotion applies to the dialogue (a text
\* marker, or an audio segment whose index is the dialogue index), the
\* returned stability and style are decided by the emotion type and
\* intensity alone, whatever the base record, the opening and closing data,
\* the trajectory label and the start and end pitch.
C19_EmotionOverrides ==
    (ReturnedFromB /\ EmotionApplies) =>
        /\ settings.stability = EmotionOnlySettings.stability
        /\ settings.style = EmotionOnlySettings.style

\* C19 witness: a base record outside the limits, the opening rule and the
\* trajectory rule fired, then the text's laughter marker; 0.25 and 0.75
\* are returned.
C19_Witness ==
    /\ ReturnedFromB
    /\ BaseStyle = 12000 /\ BaseStability = -5000
    /\ \E a \in assigned : a.rule = "opening"
    /\ \E a \in assigned : a.rule = "trajectory"
    /\ \E a \in assigned : a.rule = "pitch_difference"
    /\ TextHasLaughter /\ ApplicableSegments = {}
    /\ settings.stability = 2500 /\ settings.style = 7500

\* the per_dialogue list of the analysis file and the opening entry
ConfigPitchAnalysis == Get(analysis_config, "pitch_analysis", << >>)
ConfigPerDialogue == Get(ConfigPitchAnalysis, "per_dialogue", << >>)
HasOpeningEntry == "script_opening" \in DOMAIN ConfigPitchAnalysis

\* the first dialogue of a two-dialogue script was served from its own
\* per-dialogue record and no emotion applies
FirstOfTwoWithRecord ==
    /\ ReturnedFromB
    /\ total_dialogues = 2 /\ dialogue_index = 0
    /\ Len(ConfigPerDialogue) > 0
    /\ ConfigPerDialogue[1].index = 0
    /\ ~EmotionApplies

FirstRecord == ConfigPerDialogue[1]
FirstRecordDiff == FirstRecord.start_pitch_hz - FirstRecord.end_pitch_hz
FirstRecordVoiced == FirstRecord.start_pitch_hz > 0 /\ FirstRecord.end_pitch_hz > 0

\* C20 as claimed: in a two-dialogue script, for the first dialogue with no
\* emotion applying, a drop of more than 10 Hz (220 to 150 Hz) returns the
\* base style minus 0.03 floored at 0.1, a rise of more than 10 Hz returns
\* base plus 0.03, and a difference of at most 10 Hz or a zero pitch
\* returns the base style, for every trajectory label and opening entry
\* (read here for base styles inside [0.1, 0.9] only).
C20_PitchDropStyle ==
    (FirstOfTwoWithRecord /\ BaseStyle >= 1000 /\ BaseStyle <= 9000) =>
        settings.style =
            IF FirstRecordVoiced /\ FirstRecordDiff > 10
            THEN (IF BaseStyle - 300 < 1000 THEN 1000 ELSE BaseStyle - 300)
            ELSE IF FirstRecordVoiced /\ FirstRecordDiff < -10
            THEN (IF BaseStyle + 300 > 9000 THEN 9000 ELSE BaseStyle + 300)
            ELSE BaseStyle

\* C20 amended: the same, when the record's label is neither rising nor
\* falling and the file has no script_opening entry, with the result held
\* to [0.1, 0.9]; a record labeled falling first adds 0.05 (capped at 0.9),
\* so a drop of more than 10 Hz under that label returns base + 0.05 - 0.03.
C20_PitchDifferenceStacks ==
    (FirstOfTwoWithRecord /\ ~HasOpeningEntry) =>
        /\ (FirstRecord.trajectory = "stable") =>
              settings.style =
                  IF FirstRecordVoiced /\ FirstRecordDiff > 10
                  THEN Within(1000, 9000, BaseStyle - 300)
                  ELSE IF FirstRecordVoiced /\ FirstRecordDiff < -10
                  THEN Within(1000, 9000, BaseStyle + 300)
                  ELSE Within(1000, 9000, BaseStyle)
        /\ (FirstRecord.trajectory = "falling" /\ FirstRecordVoiced /\ FirstRecordDiff > 10) =>
              settings.style =
                  LET lifted == IF BaseStyle + 500 > 9000 THEN 9000 ELSE BaseStyle + 500
                  IN  Within(1000, 9000, lifted - 300)

\* C20 witness: base style 0.55, no opening entry, a record labeled stable
\* with 220 and 150 Hz: the pitch-difference rule alone fired, style 0.52.
C20_Witness ==
    /\ FirstOfTwoWithRecord /\ ~HasOpeningEntry
    /\ BaseStyle = 5500
    /\ FirstRecord.trajectory = "stable"
    /\ FirstRecord.start_pitch_hz = 220 /\ FirstRecord.end_pitch_hz = 150
    /\ assigned = { [ rule |-> "pitch_difference", field |-> "style", value |-> 5200 ],
                    [ rule |-> "final", field |-> "style", value |-> 5200 ],
                    [ rule |-> "final", field |-> "stability", value |-> 3500 ],
                    [ rule |-> "final", field |-> "similarity_boost", value |-> 7500 ] }
    /\ settings.style = 5200

-----------------------------------------------------------------------------
(* Timing statistics                                                       *)

\* the timing stage ran to the end of its try block
TimingAnalysed == tim_pc = "done" /\ ~tim_raised

\* the k-th pause of the recording, in units of 1/10000 s
OnsetGap(k) == 1000 * (tim_onsets[k + 1] - tim_onsets[k])

\* C11: with at most one onset the timing record is not an error record and
\* carries min pause 0.1 s, average pause 0.3 s and max pause 1.0 s; with two
\* or more onsets the three fields are the least, the mean and the greatest of
\* the gaps between consecutive onsets.
C11_PauseStatistics ==
    TimingAnalysed =>
        /\ "error" \notin DOMAIN timing_analysis
        /\ { "min_pause_duration", "average_pause_duration_seconds",
             "max_pause_duration" } \subseteq DOMAIN timing_analysis
        /\ IF Len(tim_onsets) <= 1
           THEN /\ timing_analysis.min_pause_duration = 1000
                /\ timing_analysis.average_pause_duration_seconds = 3000
                /\ timing_analysis.max_pause_duration = 10000
           ELSE LET last == Len(tim_onsets) - 1
                IN  /\ \E k \in 1..last :
                           timing_analysis.min_pause_duration = OnsetGap(k)
                    /\ \A k \in 1..last :
                           timing_analysis.min_pause_duration <= OnsetGap(k)
                    /\ \E k \in 1..last :
                           timing_analysis.max_pause_duration = OnsetGap(k)
                    /\ \A k \in 1..last :
                           timing_analysis.max_pause_duration >= OnsetGap(k)
                    /\ timing_analysis.average_pause_duration_seconds =
                           (1000 * (tim_onsets[last + 1] - tim_onsets[1])) \div last

\* a recording with a single onset gets the three fallback values
C11_Witness ==
    /\ TimingAnalysed
    /\ Len(tim_onsets) = 1
    /\ timing_analysis.min_pause_duration = 1000
    /\ timing_analysis.average_pause_duration_seconds = 3000
    /\ timing_analysis.max_pause_duration = 10000

\* the maximal runs of consecutive silent frames, as << first, last >>
SilentRuns ==
    { r \in (1..Len(silence_frames)) \X (1..Len(silence_frames)) :
        /\ r[1] <= r[2]
        /\ \A k \in r[1]..r[2] : silence_frames[k]
        /\ r[1] = 1 \/ ~silence_frames[r[1] - 1]
        /\ r[2] = Len(silence_frames) \/ ~silence_frames[r[2] + 1] }

\* the summed length, in frames, of a set of runs
RECURSIVE FramesIn(_)
FramesIn(runs) ==
    IF runs = {} THEN 0
    ELSE LET r == CHOOSE x \in runs : TRUE
         IN  (r[2] - r[1] + 1) + FramesIn(runs \ { r })

\* C23: average_silence_duration is the mean over all maximal runs of silent
\* frames of the run's length in frames times the hop time, wherever the run
\* lies in the frame sequence; without any run it is the average pause.
C23_SilenceRunsAveraged ==
    TimingAnalysed =>
        timing_analysis.average_silence_duration =
            IF SilentRuns = {}
            THEN timing_analysis.average_pause_duration_seconds
            ELSE (FramesIn(SilentRuns) * HOP_LENGTH * ONE)
                     \div (tim_sr * Cardinality(SilentRuns))

\* C12: speech_rhythm_regularity is an ordinary finite number in every case;
\* it is 0.5 with zero, one or two onsets and 1 - std / mean of the pauses
\* with more.
C12_RegularityDefault ==
    TimingAnalysed =>
        /\ ~timing_analysis.speech_rhythm_regularity.nan
        /\ Len(tim_onsets) <= 2 =>
               timing_analysis.speech_rhythm_regularity.value = 5000
        /\ (Len(tim_onsets) > 2 /\ tim_onsets[Len(tim_onsets)] > tim_onsets[1]) =>
               timing_analysis.speech_rhythm_regularity.value =
                   ONE - StdOverMean([ k \in 1..(Len(tim_onsets) - 1) |->
                                         tim_onsets[k + 1] - tim_onsets[k] ])

-----------------------------------------------------------------------------
(* Audio quality                                                           *)

\* the quality stage ran to the end of its try block
QualityAnalysed == q_pc = "done" /\ ~q_raised

\* the RMS values of the frames
FrameValues == { q_rms[k] : k \in 1..Len(q_rms) }

\* the quietest and the loudest RMS frame
QuietestFrame == CHOOSE v \in FrameValues : \A w \in FrameValues : v <= w
LoudestFrame == CHOOSE v \in FrameValues : \A w \in FrameValues : v >= w

\* C13: dynamic_range_db is exactly 0 when the minimum RMS is 0, and when the
\* minimum is positive it is 20 * log10(max / min), which is at least 0.
C13_DynamicRange ==
    QualityAnalysed =>
        /\ "dynamic_range_db" \in DOMAIN audio_quality
        /\ IF QuietestFrame = 0
           THEN audio_quality.dynamic_range_db = 0
           ELSE /\ audio_quality.dynamic_range_db >= 0
                /\ audio_quality.dynamic_range_db % 20 = 0
                /\ QuietestFrame * 10 ^ (audio_quality.dynamic_range_db \div 20)
                       = LoudestFrame

\* a buffer with a silent frame and a frame that is not silent
C13_Witness ==
    /\ QualityAnalysed
    /\ QuietestFrame = 0
    /\ LoudestFrame = 100
    /\ audio_quality.dynamic_range_db = 0

\* the bins whose frequency lies in [0, 8000] Hz
BinsUpTo8000 ==
    { k \in 1..Len(magnitude) :
        /\ FreqTimesN(k, Len(magnitude), q_sr) >= 0
        /\ FreqTimesN(k, Len(magnitude), q_sr) <= 8000 * Len(magnitude) }

\* ratio is energy / total_energy cut to four decimals
IsRatioOf(ratio, energy) ==
    /\ ratio * total_energy <= energy * ONE
    /\ energy * ONE < (ratio + 1) * total_energy

\* C14: the low, mid and high masks are pairwise disjoint and together are
\* the bins from 0 Hz to 8000 Hz; the three band energies add up to the
\* energy of those bins; the three ratios are the band energies over that
\* total and add up to 1 (to the last decimal kept) when the total is
\* positive, and all three are 0 when the total is 0.
C14_BandPartition ==
    QualityAnalysed =>
        /\ low_freq_mask \cap mid_freq_mask = {}
        /\ low_freq_mask \cap high_freq_mask = {}
        /\ mid_freq_mask \cap high_freq_mask = {}
        /\ low_freq_mask \cup mid_freq_mask \cup high_freq_mask = BinsUpTo8000
        /\ low_energy + mid_energy + high_energy = total_energy
        /\ total_energy = MaskedSum(magnitude, BinsUpTo8000)
        /\ { "low_freq_energy_ratio", "mid_freq_energy_ratio",
             "high_freq_energy_ratio" } \subseteq DOMAIN audio_quality
        /\ IF total_energy > 0
           THEN /\ IsRatioOf(audio_quality.low_freq_energy_ratio, low_energy)
                /\ IsRatioOf(audio_quality.mid_freq_energy_ratio, mid_energy)
                /\ IsRatioOf(audio_quality.high_freq_energy_ratio, high_energy)
                /\ audio_quality.low_freq_energy_ratio
                     + audio_quality.mid_freq_energy_ratio
                     + audio_quality.high_freq_energy_ratio \in (ONE - 2)..ONE
           ELSE /\ audio_quality.low_freq_energy_ratio = 0
                /\ audio_quality.mid_freq_energy_ratio = 0
                /\ audio_quality.high_freq_energy_ratio = 0

\* a spectrum with energy in each band and a bin on the 3000 Hz edge
C14_Witness ==
    /\ QualityAnalysed
    /\ q_sr = 15000
    /\ magnitude = << 1, 3, 1, 1, 3 >>
    /\ low_freq_mask = { 1 }
    /\ mid_freq_mask = { 2 }
    /\ high_freq_mask = { 3 }
    /\ audio_quality.low_freq_energy_ratio = 2000
    /\ audio_quality.mid_freq_energy_ratio = 6000
    /\ audio_quality.high_freq_energy_ratio = 2000

\* C15: for every spectrum, one with zero total band energy included,
\* clarity_score equals mid_freq_energy_ratio.
C15_ClarityIsMidRatio ==
    QualityAnalysed =>
        audio_quality.clarity_score = audio_quality.mid_freq_energy_ratio

-----------------------------------------------------------------------------
(* The run                                                                 *)

\* the seven sections of the results record
ResultSections ==
    { "audio_properties", "voice_characteristics", "timing_analysis",
      "audio_quality", "pitch_analysis", "emotion_analysis",
      "recommended_elevenlabs_settings" }

\* C17: a run of analyze() raises if and only if loading the buffer fails;
\* once loading has succeeded, whatever later computation fails, the run
\* returns the results record with all seven sections.
C17_AbortsOnlyOnLoad ==
    run_pc = "done" =>
        /\ run_outcome = "raised" <=> "load" \in run_fails
        /\ "load" \notin run_fails =>
               /\ run_outcome = "returned"
               /\ results = ResultSections

-----------------------------------------------------------------------------
(* Per-dialogue record selection                                           *)

\* the positions of per_dialogue holding the record of the dialogue served
OwnRecords ==
    { k \in 1..Len(ConfigPerDialogue) :
        ConfigPerDialogue[k].index = dialogue_index }

\* the rules of the per-dialogue block that assigned something in this call
PerDialogueRulesApplied ==
    { e.rule : e \in { a \in assigned : a.rule \in { "trajectory", "pitch_difference" } } }

\* the rules the record rec calls for
RulesCalledFor(rec) ==
    (IF rec.trajectory \in { "falling", "rising" } THEN { "trajectory" } ELSE {})
    \cup
    (IF /\ rec.start_pitch_hz > 0 /\ rec.end_pitch_hz > 0
        /\ (rec.start_pitch_hz - rec.end_pitch_hz > 10
            \/ rec.start_pitch_hz - rec.end_pitch_hz < -10)
     THEN { "pitch_difference" } ELSE {})

\* C21: the per-dialogue adjustment of dialogue i is driven by the
\* per_dialogue entry whose index field is i, whichever segments the analyzer
\* left out of the list; a dialogue without such an entry gets no trajectory
\* and no pitch-difference adjustment.
C21_OwnRecordUsed ==
    ReturnedFromB =>
        IF OwnRecords = {}
        THEN PerDialogueRulesApplied = {}
        ELSE \E k \in OwnRecords :
                 PerDialogueRulesApplied = RulesCalledFor(ConfigPerDialogue[k])

-----------------------------------------------------------------------------
(* Dialogue-level aggregation                                              *)

\* how often label occurs among the results
LabelFrequency(label) ==
    Cardinality({ k \in 1..Len(agg_segments) : agg_segments[k].trajectory = label })

\* C22: the aggregate is determined by the multiset of per-segment results:
\* reducing the same results in another order gives the same averages, the
\* same pitch_variation_range and the same common_trajectory, also when two
\* labels are equally frequent; and common_trajectory is a label of maximal
\* frequency.
C22_AggregationDeterministic ==
    agg_pc = "both" =>
        /\ dialogue_patterns = reordered_patterns
        /\ agg_segments # << >> =>
               \A k \in 1..Len(agg_segments) :
                   LabelFrequency(agg_segments[k].trajectory)
                       <= LabelFrequency(dialogue_patterns.common_trajectory)

-----------------------------------------------------------------------------
(* Formants                                                                *)

\* the voice stage ran to the end of its try block
VoiceAnalysed == v_pc = "done" /\ ~v_raised

\* the frequency of bin k in whole Hz, and the bins of the window lo..hi Hz
BinHz(k) == FreqTimesN(k, Len(v_magnitude), v_sr) \div Len(v_magnitude)
BinsInWindow(lo, hi) ==
    { k \in 1..Len(v_magnitude) :
        /\ FreqTimesN(k, Len(v_magnitude), v_sr) >= lo * Len(v_magnitude)
        /\ FreqTimesN(k, Len(v_magnitude), v_sr) <= hi * Len(v_magnitude) }

\* value is the frequency of a bin of greatest magnitude in the window, and
\* is 0 exactly when the window holds no bin
IsPeakOfWindow(value, lo, hi) ==
    IF BinsInWindow(lo, hi) = {} THEN value = 0
    ELSE /\ value # 0
         /\ \E k \in BinsInWindow(lo, hi) :
                /\ value = BinHz(k)
                /\ \A j \in BinsInWindow(lo, hi) : v_magnitude[j] <= v_magnitude[k]

\* C24: formant_f1_hz is the frequency of the greatest-magnitude bin of the
\* window 500-800 Hz and formant_f2_hz that of the window 1000-2500 Hz,
\* wherever in the window the greatest bin lies; a value is 0 only when its
\* window holds no bin.
C24_FormantPeaks ==
    VoiceAnalysed =>
        /\ IsPeakOfWindow(voice_characteristics.formant_f1_hz, 500, 800)
        /\ IsPeakOfWindow(voice_characteristics.formant_f2_hz, 1000, 2500)

-----------------------------------------------------------------------------
(* The mapper on the features the stages produce                           *)

\* C30: on the features the stages hand over (pitch variation at least 0,
\* expressiveness min(2 * pitch variation, 1), clarity in [0, 1]) the mapped
\* stability lies in [0.1, 0.6], the style in [0.3, 0.7] and the
\* similarity_boost in [0.3, 0.8]: the upper limit 0.9 is never reached.
C30_TighterRanges ==
    map_pc = "mapped" =>
        /\ { "stability", "style", "similarity_boost" }
               \subseteq DOMAIN recommended_settings
        /\ recommended_settings.stability \in 1000..6000
        /\ recommended_settings.style \in 3000..7000
        /\ recommended_settings.similarity_boost \in 3000..8000

\* a voice with pitch variation above 0.5 and all band energy in the mid
\* band: expressiveness on its cap, style on 0.7
C30_Witness ==
    /\ map_pc = "mapped"
    /\ ~v_raised /\ ~q_raised /\ ~map_raised
    /\ voice_characteristics.pitch_variation_coefficient > 5000
    /\ voice_characteristics.expressiveness_score = 10000
    /\ audio_quality.clarity_score = 10000
    /\ recommended_settings.style = 7000
    /\ recommended_settings.stability \in 1000..6000
    /\ recommended_settings.similarity_boost = 6000

-----------------------------------------------------------------------------
(* Segments without pitch data                                             *)

\* C29: a segment whose pitch contour is the single zero [0] has laughter
\* score 0 and excitement score at most 0.4, whatever its energy and its
\* spectral centroid, and is labeled neutral.
C29_NoPitchIsNeutral ==
    (emo_pc = "classified" /\ segment_contour = << 0 >>) =>
        /\ laughter_score = 0
        /\ excitement_score <= 4000
        /\ emotion_type = "neutral"

\* a loud, bright segment without a voiced frame: the energy score alone
\* brings the excitement score to 0.4
C29_Witness ==
    /\ emo_pc = "classified"
    /\ segment_contour = << 0 >>
    /\ segment_y.rms_mean = 2000
    /\ segment_y.spectral_centroid = 8000
    /\ laughter_score = 0
    /\ excitement_score = 4000
    /\ emotion_type = "neutral"

-----------------------------------------------------------------------------
(* Audio assembly                                                          *)

\* C25: whatever the speakers and whichever syntheses fail, the assembled
\* sequence has pauses only between two generated segments: it does not start
\* with a pause, has no two adjacent pauses and does not end with a pause.
C25_PausesOnlyBetween ==
    (gen_pc = "done" /\ audio_segments # << >>) =>
        /\ audio_segments[1] # "pause"
        /\ \A k \in 1..(Len(audio_segments) - 1) :
               ~(audio_segments[k] = "pause" /\ audio_segments[k + 1] = "pause")
        /\ audio_segments[Len(audio_segments)] # "pause"

-----------------------------------------------------------------------------
(* Configuration left alone                                                *)

\* C26: over any sequence of calls of the two settings functions,
\* DEFAULT_SETTINGS and the analysis_config passed in stay as they were, so
\* a call of version B returns what the same call returns on the module's
\* defaults and the configuration as it was before the call.
C26_ConfigurationUnchanged ==
    [][ /\ DEFAULT_SETTINGS' = DEFAULT_SETTINGS
        /\ DEFAULT_SETTINGS' = DefaultSettingsDict
        /\ analysis_config' = analysis_config
        /\ (dlg_pc' = "returned" /\ version' = "B") =>
               settings' = VersionB(dialogue_index', total_dialogues', text',
                                    analysis_config, DefaultSettingsDict).settings
      ]_vars

\* a call of version B that started from the defaults, adjusted its own
\* dictionary and left DEFAULT_SETTINGS as the module defines it
C26_Witness ==
    /\ ReturnedFromB
    /\ "recommended_elevenlabs_settings" \notin DOMAIN analysis_config
    /\ \E a \in assigned : a.rule # "final" /\ a.field = "style" /\ a.value # 5500
    /\ settings.style # 5500
    /\ DEFAULT_SETTINGS = DefaultSettingsDict

-----------------------------------------------------------------------------
(* Truncation of the cleaned text                                          *)

\* the words of the text as it reaches the truncation step
WordsAtTruncation ==
    Split(CollapseNewlines(RemoveSections(RemoveReferenceMarkers(wiki_text), 1)))

\* C27: a text of more than max_words words comes back ending with "..."
\* and splits on whitespace into max_words + 1 tokens, the first max_words
\* words and the marker; a text of at most max_words words comes back
\* without the marker.
C27_TruncationTokens ==
    wiki_pc = "done" =>
        IF Len(WordsAtTruncation) > max_words
        THEN /\ wiki_result # << >>
             /\ wiki_result[Len(wiki_result)] = ELLIPSIS
             /\ Len(Split(wiki_result)) = max_words + 1
        ELSE \A k \in 1..Len(wiki_result) : wiki_result[k] # ELLIPSIS

-----------------------------------------------------------------------------
(* Parenthetical markers in the text sent to speech                        *)

\* the pieces of the returned text
ResultPieces == { tts_result[k] : k \in 1..Len(tts_result) }

\* no two whitespace pieces side by side in the returned text
NoWhitespaceRun ==
    \A k \in 1..(Len(tts_result) - 1) :
        ~(IsSpace(tts_result[k]) /\ IsSpace(tts_result[k + 1]))

\* C28 as stated: whatever the text, the result of either function holds
\* neither "(" nor ")" and no run of two or more whitespace characters.
C28_NoParenthesisAtAll ==
    tts_pc = "done" =>
        /\ "(" \notin ResultPieces
        /\ ")" \notin ResultPieces
        /\ NoWhitespaceRun

\* C28: whatever the text, the result of either function holds no
\* parenthetical marker, that is no "(" with a ")" anywhere after it, and
\* no run of two or more whitespace characters; a parenthesis without its
\* partner stays.
C28_NoParentheticalMarker ==
    tts_pc = "done" =>
        /\ \A k \in 1..Len(tts_result) : \A j \in (k + 1)..Len(tts_result) :
               ~(tts_result[k] = "(" /\ tts_result[j] = ")")
        /\ NoWhitespaceRun

\* a text with a marker outside the table of sounds and more text: the
\* marker is gone and the rest is returned
C28_Witness ==
    /\ tts_pc = "done"
    /\ \E k \in 1..(Len(tts_text) - 2) :
            tts_text[k] = "(" /\ tts_text[k + 1] = "sighs" /\ tts_text[k + 2] = ")"
    /\ "sighs" \notin ResultPieces
    /\ tts_result # << >>

=============================================================================
